---------------------------- MODULE Spec2Model ----------------------------
(***************************************************************************)
(* Model of the evidence-gated proposal pipeline of feedenrich:           *)
(*   - tools.EvidenceRegistry   (src/unnamed/part_003)                     *)
(*   - tools.RiskClassifier     (src/unnamed/part_001)                     *)
(*   - pipeline.FastPipeline and pipeline.Pipeline                         *)
(*                              (src/internal/agent/pipeline/              *)
(*                               fast_pipeline.go)                         *)
(*                                                                         *)
(* Confidence values are float64 in the source.  They are modelled as     *)
(* integer hundredths (0.85 is 85), so that every threshold comparison of *)
(* the source is an exact integer comparison.                              *)
(***************************************************************************)
EXTENDS Integers, Sequences, FiniteSets, TLC

VARIABLES
    registry,      \* the EvidenceRegistry under test: [evidence, byField]
    nextID,        \* source of fresh uuid.New() values
    verifyCalled,  \* history: the IDs VerifyEvidence has been called with
    mu,            \* the registry's sync.RWMutex
    threads,       \* concurrent callers of the registry: position and locals
    risk,          \* a call of AssessChange: its arguments and its result
    batch,         \* the changes handed to AssessBatchChanges
    overall,       \* the result of AssessBatchChanges
    heap,          \* the registries NewEvidenceRegistry has allocated, by address
    pRegistry,     \* Pipeline.registry: the address the field holds
    runs,          \* concurrent calls of Pipeline.Run on one Pipeline
    fastRun,       \* a call of FastPipeline.Run: position, oracle output, result
    pipeRun,       \* a call of Pipeline.Run: position, plan, result
    session,       \* a call of Agent.RunWithGroup: position, the Session, the log
    ctxDone,       \* the caller's context has been cancelled
    validator,     \* the HardRuleValidator: its rules
    validation,    \* a call of Validate: the record, the rules, the result
    dbProposals,   \* the proposals table: the row of each id
    diff,          \* a call of DiffEngine.ComputeDiff: its arguments and its Diff
    toolRun,       \* a call of Agent.Run: the step, the tools executed, the Session
    stageRun       \* FastPipeline.Run and its image goroutine: positions, callbacks

regVars == <<registry, nextID, verifyCalled>>
concVars == <<mu, threads>>
riskVars == <<risk, batch, overall>>

prunVars == <<heap, pRegistry, runs>>
plVars == <<prunVars, fastRun, pipeRun>>

agentVars == <<session, ctxDone>>
valVars == <<validator, validation>>
dbVars == <<dbProposals>>
diffVars == <<diff>>
loopVars == <<toolRun>>
goVars == <<stageRun>>
lateVars == <<diffVars, loopVars, goVars>>
extVars == <<agentVars, valVars, dbVars, lateVars>>

vars == <<regVars, concVars, riskVars, plVars, extVars>>

-----------------------------------------------------------------------------
(* Bounds and input domains                                                *)

\* Largest number of Evidence entries one registry holds in the model.
MaxEvidence == 2

ProductIDs == {"p1"}
FieldNames == {"color", "material"}
Values == {<<"r", "e", "d">>, <<"b", "l", "u", "e">>}
Confidences == {84, 85, 95}
Users == {"u1"}
Threads == {"t1", "t2"}
Verifiers == {"agent"}
ImageURLs == {"img"}
PageURLs == {"url"}

\* An ID that uuid.New() never returned to this registry.
UnknownID == MaxEvidence + 1

\* nil *Evidence (var best *Evidence); IDs start at 1.
Nil == 0

\* confidence >= 0.85 auto-verifies an image observation.
AutoVerifyThreshold == 85

\* Confidence 1.0 of feed and user evidence.
FullConfidence == 100

-----------------------------------------------------------------------------
(* tools.EvidenceRegistry                                                  *)

\* NewEvidenceRegistry: two empty maps.
NewEvidenceRegistry == [evidence |-> <<>>, byField |-> <<>>]

\* A map insert m[k] = v.
MapPut(m, k, v) == [x \in DOMAIN m \cup {k} |-> IF x = k THEN v ELSE m[x]]

\* r.byField[field] of a Go map: the zero value (nil slice) for a missing key.
ByField(r, field) == IF field \in DOMAIN r.byField THEN r.byField[field] ELSE <<>>

\* r.evidence[ev.ID] = ev; r.byField[field] = append(r.byField[field], ev.ID)
Insert(r, ev) ==
    [evidence |-> MapPut(r.evidence, ev.id, ev),
     byField  |-> MapPut(r.byField, ev.field, Append(ByField(r, ev.field), ev.id))]

FeedEvidenceUnverified(id, productID, field, value, now) ==
    [id |-> id, productID |-> productID, field |-> field, value |-> value,
     sourceType |-> "feed",
     source |-> [type |-> "feed_field", reference |-> field, snippet |-> value,
                 url |-> "", imageURL |-> "", timestamp |-> now],
     confidence |-> FullConfidence,
     verified |-> FALSE,
     verifiedBy |-> "",
     createdAt |-> now]

FeedEvidence(id, productID, field, value, now) ==
    [id |-> id, productID |-> productID, field |-> field, value |-> value,
     sourceType |-> "feed",
     source |-> [type |-> "feed_field", reference |-> field, snippet |-> value,
                 url |-> "", imageURL |-> "", timestamp |-> now],
     confidence |-> FullConfidence,
     verified |-> TRUE,
     verifiedBy |-> "system",
     createdAt |-> now]

RegisterFromFeed(r, id, productID, field, value, now) ==
    Insert(r, FeedEvidence(id, productID, field, value, now))

ImageEvidenceOffByOne(id, productID, field, value, imageURL, reasoning, confidence, now) ==
    [id |-> id, productID |-> productID, field |-> field, value |-> value,
     sourceType |-> "image",
     source |-> [type |-> "image_observation", reference |-> "visual_analysis",
                 snippet |-> reasoning, url |-> "", imageURL |-> imageURL,
                 timestamp |-> now],
     confidence |-> confidence,
     verified |-> confidence > AutoVerifyThreshold,
     verifiedBy |-> "",
     createdAt |-> now]

ImageEvidence(id, productID, field, value, imageURL, reasoning, confidence, now) ==
    [id |-> id, productID |-> productID, field |-> field, value |-> value,
     sourceType |-> "image",
     source |-> [type |-> "image_observation", reference |-> "visual_analysis",
                 snippet |-> reasoning, url |-> "", imageURL |-> imageURL,
                 timestamp |-> now],
     confidence |-> confidence,
     verified |-> confidence >= AutoVerifyThreshold,
     verifiedBy |-> "",
     createdAt |-> now]

RegisterFromImage(r, id, productID, field, value, imageURL, reasoning, confidence, now) ==
    Insert(r, ImageEvidence(id, productID, field, value, imageURL, reasoning,
                            confidence, now))

WebEvidenceAutoVerified(id, productID, field, value, url, snippet, confidence, now) ==
    [id |-> id, productID |-> productID, field |-> field, value |-> value,
     sourceType |-> "web",
     source |-> [type |-> "web_page", reference |-> url, snippet |-> snippet,
                 url |-> url, imageURL |-> "", timestamp |-> now],
     confidence |-> confidence,
     verified |-> confidence >= AutoVerifyThreshold,
     verifiedBy |-> "",
     createdAt |-> now]

WebEvidence(id, productID, field, value, url, snippet, confidence, now) ==
    [id |-> id, productID |-> productID, field |-> field, value |-> value,
     sourceType |-> "web",
     source |-> [type |-> "web_page", reference |-> url, snippet |-> snippet,
                 url |-> url, imageURL |-> "", timestamp |-> now],
     confidence |-> confidence,
     verified |-> FALSE,
     verifiedBy |-> "",
     createdAt |-> now]

RegisterFromWeb(r, id, productID, field, value, url, snippet, confidence, now) ==
    Insert(r, WebEvidence(id, productID, field, value, url, snippet, confidence, now))

UserEvidence(id, productID, field, value, userID, now) ==
    [id |-> id, productID |-> productID, field |-> field, value |-> value,
     sourceType |-> "user",
     source |-> [type |-> "user_input", reference |-> userID,
                 snippet |-> "User provided value", url |-> "", imageURL |-> "",
                 timestamp |-> now],
     confidence |-> FullConfidence,
     verified |-> TRUE,
     verifiedBy |-> userID,
     createdAt |-> now]

RegisterFromUser(r, id, productID, field, value, userID, now) ==
    Insert(r, UserEvidence(id, productID, field, value, userID, now))

\* The loop of GetEvidenceForField: the entries of ids that are in r.evidence.
RECURSIVE CollectEvidence(_, _)
CollectEvidence(r, ids) ==
    IF ids = <<>> THEN <<>>
    ELSE IF Head(ids) \in DOMAIN r.evidence
         THEN <<Head(ids)>> \o CollectEvidence(r, Tail(ids))
         ELSE CollectEvidence(r, Tail(ids))

\* GetEvidenceForField: the []*Evidence of a field, as the IDs pointed to.
GetEvidenceForField(r, field) == CollectEvidence(r, ByField(r, field))

BestStepIgnoringVerified(r, best, ev) ==
    IF best = Nil \/ r.evidence[ev].confidence > r.evidence[best].confidence
    THEN ev
    ELSE best

\* One iteration of the loop of GetBestEvidence.
BestStep(r, best, ev) ==
    IF ~r.evidence[ev].verified THEN best
    ELSE IF best = Nil \/ r.evidence[ev].confidence > r.evidence[best].confidence
         THEN ev
         ELSE best

RECURSIVE BestLoop(_, _, _)
BestLoop(r, evs, best) ==
    IF evs = <<>> THEN best
    ELSE BestLoop(r, Tail(evs), BestStep(r, best, Head(evs)))

\* GetBestEvidence: the ID of the entry returned, Nil for a nil pointer.
GetBestEvidence(r, field) == BestLoop(r, GetEvidenceForField(r, field), Nil)

\* GetAllowedFacts: field -> value of the best evidence, over the keys of byField.
GetAllowedFacts(r) ==
    [f \in {g \in DOMAIN r.byField : GetBestEvidence(r, g) # Nil} |->
        r.evidence[GetBestEvidence(r, f)].value]

\* VerifyEvidence: ev.Verified = true; ev.VerifiedBy = verifiedBy, when id is known.
VerifyEvidence(r, id, verifiedBy) ==
    IF id \in DOMAIN r.evidence
    THEN [r EXCEPT !.evidence[id].verified = TRUE,
                   !.evidence[id].verifiedBy = verifiedBy]
    ELSE r

\* The loop of LoadFromFeedData over the fields that parsed: nil values and
\* empty strings are skipped, the others are registered as feed evidence.
RECURSIVE LoadFields(_, _, _, _)
LoadFields(r, id, productID, fields) ==
    IF fields = <<>> THEN [registry |-> r, nextID |-> id]
    ELSE IF Head(fields).kind = "null" \/ Head(fields).value = <<>>
         THEN LoadFields(r, id, productID, Tail(fields))
         ELSE LoadFields(RegisterFromFeed(r, id, productID, Head(fields).field,
                                          Head(fields).value, id),
                         id + 1, productID, Tail(fields))

-----------------------------------------------------------------------------
(* Strings.  A Go string is a sequence of one-character strings, so that    *)
(* strings.ToLower, strings.Contains and strings.Fields are computed and    *)
(* not assumed.                                                              *)

\* strings.ToLower on one character, for the upper-case letters of the model.
LowerChar(c) ==
    CASE c = "A" -> "a" [] c = "B" -> "b" [] c = "I" -> "i" [] c = "O" -> "o"
      [] c = "S" -> "s" [] OTHER -> c

ToLower(s) == [i \in 1..Len(s) |-> LowerChar(s[i])]

\* strings.Contains(s, sub)
Contains(s, sub) ==
    \E i \in 0..(Len(s) - Len(sub)) : SubSeq(s, i + 1, i + Len(sub)) = sub

\* strings.HasPrefix(s, prefix)
HasPrefix(s, prefix) ==
    Len(s) >= Len(prefix) /\ SubSeq(s, 1, Len(prefix)) = prefix

\* unicode.IsSpace on the characters of the model.
IsSpace(c) == c = " "

\* strings.Fields(s): the maximal runs of non-space characters, in order.
RECURSIVE FieldsFrom(_, _)
FieldsFrom(s, word) ==
    IF s = <<>> THEN (IF word = <<>> THEN <<>> ELSE <<word>>)
    ELSE IF IsSpace(Head(s))
         THEN (IF word = <<>> THEN <<>> ELSE <<word>>) \o FieldsFrom(Tail(s), <<>>)
         ELSE FieldsFrom(Tail(s), Append(word, Head(s)))

StringsFields(s) == FieldsFrom(s, <<>>)

\* strings.ToLower on a field name; field names are atoms of the model.
ToLowerName(f) ==
    CASE f = "Material" -> "material" [] f = "Title" -> "title" [] OTHER -> f

-----------------------------------------------------------------------------
(* tools.RiskClassifier                                                     *)

highRiskFields ==
    {"material", "ingredients", "weight", "dimensions", "capacity", "voltage",
     "wattage", "compatibility", "certifications", "warranty", "age_group",
     "energy_class"}

highRiskKeywords == <<
    <<"o", "r", "g", "a", "n", "i", "c">>,
    <<"b", "i", "o">>,
    <<"n", "a", "t", "u", "r", "a", "l">>,
    <<"h", "y", "p", "o", "a", "l", "l", "e", "r", "g", "e", "n", "i", "c">>,
    <<"d", "e", "r", "m", "a", "t", "o", "l", "o", "g", "i", "c", "a", "l", "l", "y", " ", "t", "e", "s", "t", "e", "d">>,
    <<"c", "l", "i", "n", "i", "c", "a", "l", "l", "y", " ", "p", "r", "o", "v", "e", "n">>,
    <<"m", "e", "d", "i", "c", "a", "l">>,
    <<"t", "h", "e", "r", "a", "p", "e", "u", "t", "i", "c">>,
    <<"h", "e", "a", "l", "i", "n", "g">>,
    <<"f", "i", "r", "e", "p", "r", "o", "o", "f">>,
    <<"w", "a", "t", "e", "r", "p", "r", "o", "o", "f">>,
    <<"s", "h", "o", "c", "k", "p", "r", "o", "o", "f">>,
    <<"c", "h", "i", "l", "d", "p", "r", "o", "o", "f">>,
    <<"n", "o", "n", "-", "t", "o", "x", "i", "c">>,
    <<"f", "o", "o", "d", "-", "g", "r", "a", "d", "e">>,
    <<"b", "p", "a", "-", "f", "r", "e", "e">>,
    <<"l", "e", "a", "d", "-", "f", "r", "e", "e">>,
    <<"c", "e", "r", "t", "i", "f", "i", "e", "d">>,
    <<"a", "p", "p", "r", "o", "v", "e", "d">>,
    <<"c", "o", "m", "p", "l", "i", "a", "n", "t">>,
    <<"p", "a", "t", "e", "n", "t", "e", "d">>,
    <<"t", "r", "a", "d", "e", "m", "a", "r", "k", "e", "d">>,
    <<"b", "e", "s", "t">>,
    <<"f", "a", "s", "t", "e", "s", "t">>,
    <<"s", "t", "r", "o", "n", "g", "e", "s", "t">>,
    <<"m", "o", "s", "t", " ", "e", "f", "f", "i", "c", "i", "e", "n", "t">>,
    <<"g", "u", "a", "r", "a", "n", "t", "e", "e", "d">>,
    <<"m", "a", "d", "e", " ", "i", "n">>,
    <<"m", "a", "n", "u", "f", "a", "c", "t", "u", "r", "e", "d", " ", "i", "n">>,
    <<"a", "s", "s", "e", "m", "b", "l", "e", "d", " ", "i", "n">>
>>

\* The thresholds of AssessChange, AssessBatchChanges and
\* ShouldRequireHumanReview, in hundredths (confidence) and tenths (ratio).
LowConfidence == 70
VeryLowConfidence == 50
HighConfidence == 90
ReviewConfidence == 60
SignificantChange == 7
NearRewrite == 9
MinorChange == 3
ManyMedium == 3
ManyChanges == 5

\* A float64 ratio num/den (den > 0), compared exactly.
RatioGT(r, tenths) == r.num * 10 > tenths * r.den
RatioLT(r, tenths) == r.num * 10 < tenths * r.den

Min(a, b) == IF a < b THEN a ELSE b

\* The count map of a word list: beforeSet[w]++ for each word.
CountOf(words, w) == Cardinality({i \in DOMAIN words : words[i] = w})
WordsOf(words) == {words[i] : i \in DOMAIN words}

\* The loop "Count common words": the sum, over the words of beforeSet that are
\* also in afterSet, of the smaller of the two counts.
RECURSIVE CommonWords(_, _, _)
CommonWords(ws, beforeWords, afterWords) ==
    IF ws = {} THEN 0
    ELSE LET w == CHOOSE x \in ws : TRUE IN
         (IF w \in WordsOf(afterWords)
          THEN Min(CountOf(beforeWords, w), CountOf(afterWords, w))
          ELSE 0)
         + CommonWords(ws \ {w}, beforeWords, afterWords)

\* The ratio of calculateChangeRatio for two non-empty strings, from their words:
\* 1 - 2*common/total, as the fraction (total - 2*common)/total.
WordChangeRatio(beforeWords, afterWords) ==
    IF Len(beforeWords) + Len(afterWords) = 0 THEN [num |-> 0, den |-> 1]
    ELSE [num |-> Len(beforeWords) + Len(afterWords)
                  - CommonWords(WordsOf(beforeWords), beforeWords, afterWords) * 2,
          den |-> Len(beforeWords) + Len(afterWords)]

\* calculateChangeRatio over the words alone, without the cases of an empty
\* string: the ratio of an empty before and an empty after.
calculateChangeRatioOfWords(before, after) ==
    IF before = <<>> THEN [num |-> 0, den |-> 1]
    ELSE IF after = <<>> THEN [num |-> 1, den |-> 1]
    ELSE WordChangeRatio(StringsFields(ToLower(before)), StringsFields(ToLower(after)))

calculateChangeRatio(before, after) ==
    IF before = <<>> /\ after = <<>> THEN [num |-> 0, den |-> 1]
    ELSE IF before = <<>> THEN [num |-> 1, den |-> 1]
    ELSE IF after = <<>> THEN [num |-> 1, den |-> 1]
    ELSE WordChangeRatio(StringsFields(ToLower(before)), StringsFields(ToLower(after)))

\* assessment := &RiskAssessment{Level: "low", ...}
NewAssessment(confidence) ==
    [level |-> "low", reasons |-> <<>>, requiresHuman |-> FALSE,
     confidence |-> [num |-> confidence, den |-> 1]]

\* "Check field risk"
CheckFieldRisk(a, field) ==
    IF ToLowerName(field) \in highRiskFields
    THEN [a EXCEPT !.level = "high", !.requiresHuman = TRUE,
                   !.reasons = Append(@, "high-risk field")]
    ELSE a

\* The keyword is in the new content and was not already in before.
KeywordIsNew(before, lowerAfter, keyword) ==
    /\ Contains(lowerAfter, keyword)
    /\ ~Contains(ToLower(before), keyword)

\* "Check for high-risk keywords in new content": the loop over the keywords,
\* from the i-th on.
RECURSIVE CheckKeywords(_, _, _, _)
CheckKeywords(a, i, before, lowerAfter) ==
    IF i > Len(highRiskKeywords) THEN a
    ELSE CheckKeywords(
            IF KeywordIsNew(before, lowerAfter, ToLower(highRiskKeywords[i]))
            THEN [a EXCEPT !.level = "high", !.requiresHuman = TRUE,
                           !.reasons = Append(@, "new high-risk keyword")]
            ELSE a,
            i + 1, before, lowerAfter)

\* "Check source type risk"
CheckWebSource(a, sourceType) ==
    IF sourceType = "web" /\ a.level # "high"
    THEN [a EXCEPT !.level = "medium", !.reasons = Append(@, "sourced from web")]
    ELSE a

CheckImageSource(a, sourceType) ==
    IF sourceType = "image" /\ a.level # "high"
    THEN [a EXCEPT !.level = "medium", !.reasons = Append(@, "inferred from image")]
    ELSE a

\* "Check confidence"
CheckLowConfidenceUnguarded(a, confidence) ==
    IF confidence < LowConfidence
    THEN [a EXCEPT !.level = "medium", !.reasons = Append(@, "low confidence")]
    ELSE a

CheckLowConfidence(a, confidence) ==
    IF confidence < LowConfidence /\ a.level # "high"
    THEN [a EXCEPT !.level = "medium", !.reasons = Append(@, "low confidence")]
    ELSE a

CheckVeryLowConfidenceNoHuman(a, confidence) ==
    IF confidence < VeryLowConfidence
    THEN [a EXCEPT !.level = "high", !.reasons = Append(@, "very low confidence")]
    ELSE a

CheckVeryLowConfidence(a, confidence) ==
    IF confidence < VeryLowConfidence
    THEN [a EXCEPT !.level = "high", !.requiresHuman = TRUE,
                   !.reasons = Append(@, "very low confidence")]
    ELSE a

\* "Check magnitude of change"
CheckSignificantChangeUnguarded(a, changeRatio) ==
    IF RatioGT(changeRatio, SignificantChange)
    THEN [a EXCEPT !.level = "medium",
                   !.reasons = Append(@, "significant content change")]
    ELSE a

CheckSignificantChange(a, changeRatio) ==
    IF RatioGT(changeRatio, SignificantChange) /\ a.level # "high"
    THEN [a EXCEPT !.level = "medium",
                   !.reasons = Append(@, "significant content change")]
    ELSE a

CheckNearRewrite(a, changeRatio) ==
    IF RatioGT(changeRatio, NearRewrite)
    THEN [a EXCEPT !.level = "high", !.requiresHuman = TRUE,
                   !.reasons = Append(@, "near-complete rewrite")]
    ELSE a

\* "Low risk indicators"
LowRiskIndicators(a, sourceType, confidence, changeRatio) ==
    IF a.level = "low" /\ Len(a.reasons) = 0
    THEN [a EXCEPT !.reasons =
            (IF sourceType = "feed" THEN <<"data from original feed">> ELSE <<>>)
            \o (IF confidence >= HighConfidence THEN <<"high confidence">> ELSE <<>>)
            \o (IF RatioLT(changeRatio, MinorChange) THEN <<"minor change">> ELSE <<>>)]
    ELSE a

\* AssessChange from "Check magnitude of change" on, changeRatio computed.
AssessMagnitude(a, sourceType, confidence, changeRatio) ==
    LowRiskIndicators(
        CheckNearRewrite(CheckSignificantChange(a, changeRatio), changeRatio),
        sourceType, confidence, changeRatio)

\* AssessChange: the checks in the order of the source.
AssessChange(field, before, after, sourceType, confidence) ==
    AssessMagnitude(
        CheckVeryLowConfidence(
            CheckLowConfidence(
                CheckImageSource(
                    CheckWebSource(
                        CheckKeywords(
                            CheckFieldRisk(NewAssessment(confidence), field),
                            1, before, ToLower(after)),
                        sourceType),
                    sourceType),
                confidence),
            confidence),
        sourceType, confidence, calculateChangeRatio(before, after))

\* The k-th check of AssessChange applied to the assessment a, in the order of
\* the source: field risk, keywords, web, image, low confidence, very low
\* confidence, significant change, near rewrite, low risk indicators.
AssessCheck(k, a, field, before, after, sourceType, confidence, changeRatio) ==
    CASE k = 1 -> CheckFieldRisk(a, field)
      [] k = 2 -> CheckKeywords(a, 1, before, ToLower(after))
      [] k = 3 -> CheckWebSource(a, sourceType)
      [] k = 4 -> CheckImageSource(a, sourceType)
      [] k = 5 -> CheckLowConfidence(a, confidence)
      [] k = 6 -> CheckVeryLowConfidence(a, confidence)
      [] k = 7 -> CheckSignificantChange(a, changeRatio)
      [] k = 8 -> CheckNearRewrite(a, changeRatio)
      [] OTHER -> LowRiskIndicators(a, sourceType, confidence, changeRatio)

\* The values of *assessment inside AssessChange: after construction, then
\* after each check from the k-th on.
RECURSIVE AssessSteps(_, _, _, _, _, _, _, _)
AssessSteps(steps, k, field, before, after, sourceType, confidence, changeRatio) ==
    IF k > 9 THEN steps
    ELSE AssessSteps(
            Append(steps, AssessCheck(k, steps[Len(steps)], field, before, after,
                                      sourceType, confidence, changeRatio)),
            k + 1, field, before, after, sourceType, confidence, changeRatio)

AssessTrace(field, before, after, sourceType, confidence) ==
    AssessSteps(<<NewAssessment(confidence)>>, 1, field, before, after, sourceType,
                confidence, calculateChangeRatio(before, after))

\* One iteration of the loop of AssessBatchChanges: the counts, the confidence
\* total, the reasons of the high changes and RequiresHuman.
BatchAdd(acc, individual) ==
    [highCount |-> acc.highCount + (IF individual.level = "high" THEN 1 ELSE 0),
     mediumCount |-> acc.mediumCount + (IF individual.level = "medium" THEN 1 ELSE 0),
     totalConfidence |-> acc.totalConfidence + individual.confidence.num,
     reasons |-> IF individual.level = "high"
                 THEN acc.reasons \o individual.reasons ELSE acc.reasons,
     requiresHuman |-> acc.requiresHuman \/ individual.requiresHuman]

RECURSIVE BatchLoop(_, _)
BatchLoop(changes, acc) ==
    IF changes = <<>> THEN acc
    ELSE BatchLoop(Tail(changes),
                   BatchAdd(acc, AssessChange(Head(changes).field, Head(changes).before,
                                              Head(changes).after,
                                              Head(changes).sourceType,
                                              Head(changes).confidence)))

\* "Determine overall level"; overall.Confidence is the mean, kept as total/len.
BatchOverall(acc, len) ==
    [level |-> IF acc.highCount > 0 THEN "high"
               ELSE IF acc.mediumCount >= ManyMedium \/ len > ManyChanges THEN "medium"
               ELSE IF acc.mediumCount > 0 THEN "medium"
               ELSE "low",
     reasons |-> IF acc.highCount = 0 /\ (acc.mediumCount >= ManyMedium \/ len > ManyChanges)
                 THEN Append(acc.reasons, "multiple medium-risk changes")
                 ELSE acc.reasons,
     requiresHuman |-> acc.requiresHuman \/ acc.highCount > 0,
     confidence |-> IF len > 0 THEN [num |-> acc.totalConfidence, den |-> len]
                    ELSE [num |-> FullConfidence, den |-> 1]]

AssessBatchChanges(changes) ==
    BatchOverall(BatchLoop(changes,
                     [highCount |-> 0, mediumCount |-> 0, totalConfidence |-> 0,
                      reasons |-> <<>>, requiresHuman |-> FALSE]),
                 Len(changes))

\* assessment.Confidence < c/100
ConfidenceLT(a, c) == a.confidence.num < c * a.confidence.den

\* ShouldRequireHumanReview
ShouldRequireHumanReview(a) ==
    IF a.requiresHuman THEN TRUE
    ELSE IF a.level = "high" THEN TRUE
    ELSE IF ConfidenceLT(a, ReviewConfidence) THEN TRUE
    ELSE FALSE

\* No assessment returned yet; no call of AssessChange in progress.
NoResult == [level |-> "none"]
NoCall == [pc |-> "none"]

\* The RiskClassifier is not in use.
RiskIdle == risk = NoCall /\ batch = <<>> /\ overall = NoResult

\* A goroutine that has not called Run.
NoRun == [pc |-> "none"]

\* NewPipeline: p.registry holds a fresh registry, at address 1; no Run called.
NewPipeline ==
    /\ heap = <<NewEvidenceRegistry>>
    /\ pRegistry = 1
    /\ runs = <<>>
    /\ pipeRun = NoRun

\* NewFastPipeline; no Run called.
NewFastPipeline == fastRun = NoRun

PipelinesIdle == NewPipeline /\ NewFastPipeline

-----------------------------------------------------------------------------
(* tools.HardRuleValidator                                                   *)

\* The Value of a rule: none, a number, a list of words, a string.
NoValue == [kind |-> "none"]
Number(n) == [kind |-> "number", n |-> n]
Words(words) == [kind |-> "words", words |-> words]
Pattern(str) == [kind |-> "string", str |-> str]

\* The default rules with the minimum title length made an error.
defaultGMCRulesTitleMinError == <<
    [ID |-> "gmc_id_required", Field |-> "id", Type |-> "required",
     Value |-> NoValue, Severity |-> "error"],
    [ID |-> "gmc_title_required", Field |-> "title", Type |-> "required",
     Value |-> NoValue, Severity |-> "error"],
    [ID |-> "gmc_description_required", Field |-> "description", Type |-> "required",
     Value |-> NoValue, Severity |-> "error"],
    [ID |-> "gmc_link_required", Field |-> "link", Type |-> "required",
     Value |-> NoValue, Severity |-> "error"],
    [ID |-> "gmc_image_required", Field |-> "image_link", Type |-> "required",
     Value |-> NoValue, Severity |-> "error"],
    [ID |-> "gmc_price_required", Field |-> "price", Type |-> "required",
     Value |-> NoValue, Severity |-> "error"],
    [ID |-> "gmc_availability_required", Field |-> "availability", Type |-> "required",
     Value |-> NoValue, Severity |-> "error"],
    [ID |-> "gmc_title_min", Field |-> "title", Type |-> "min_length",
     Value |-> Number(30), Severity |-> "error"],
    [ID |-> "gmc_title_max", Field |-> "title", Type |-> "max_length",
     Value |-> Number(150), Severity |-> "error"],
    [ID |-> "gmc_description_min", Field |-> "description", Type |-> "min_length",
     Value |-> Number(50), Severity |-> "warning"],
    [ID |-> "gmc_description_max", Field |-> "description", Type |-> "max_length",
     Value |-> Number(5000), Severity |-> "error"],
    [ID |-> "gmc_link_url", Field |-> "link", Type |-> "url",
     Value |-> NoValue, Severity |-> "error"],
    [ID |-> "gmc_image_url", Field |-> "image_link", Type |-> "url",
     Value |-> NoValue, Severity |-> "error"],
    [ID |-> "gmc_title_promo", Field |-> "title", Type |-> "forbidden_words",
     Value |-> Words(<<<<"f", "r", "e", "e", " ", "s", "h", "i", "p", "p", "i", "n", "g">>,
                 <<"s", "a", "l", "e">>,
                 <<"d", "i", "s", "c", "o", "u", "n", "t">>,
                 <<"p", "r", "o", "m", "o">>,
                 <<"s", "o", "l", "d", "e", "s">>,
                 <<"-", "5", "0", "%">>,
                 <<"-", "3", "0", "%">>,
                 <<"-", "2", "0", "%">>,
                 <<"l", "i", "v", "r", "a", "i", "s", "o", "n", " ", "g", "r", "a", "t", "u", "i", "t", "e">>,
                 <<"g", "r", "a", "t", "u", "i", "t">>,
                 <<"o", "f", "f", "r", "e">>,
                 <<"p", "r", "o", "m", "o", "t", "i", "o", "n">>>>), Severity |-> "error"],
    [ID |-> "gmc_description_promo", Field |-> "description", Type |-> "forbidden_words",
     Value |-> Words(<<<<"f", "r", "e", "e", " ", "s", "h", "i", "p", "p", "i", "n", "g">>,
                 <<"l", "i", "v", "r", "a", "i", "s", "o", "n", " ", "g", "r", "a", "t", "u", "i", "t", "e">>,
                 <<"c", "l", "i", "c", "k", " ", "h", "e", "r", "e">>,
                 <<"b", "u", "y", " ", "n", "o", "w">>,
                 <<"l", "i", "m", "i", "t", "e", "d", " ", "t", "i", "m", "e">>>>), Severity |-> "warning"],
    [ID |-> "gmc_brand_recommended", Field |-> "brand", Type |-> "required",
     Value |-> NoValue, Severity |-> "warning"],
    [ID |-> "gmc_gtin_recommended", Field |-> "gtin", Type |-> "required",
     Value |-> NoValue, Severity |-> "warning"],
    [ID |-> "gmc_product_type_recommended", Field |-> "product_type", Type |-> "required",
     Value |-> NoValue, Severity |-> "info"],
    [ID |-> "gmc_google_category_recommended", Field |-> "google_product_category", Type |-> "required",
     Value |-> NoValue, Severity |-> "info"],
    [ID |-> "gmc_color_apparel", Field |-> "color", Type |-> "required",
     Value |-> NoValue, Severity |-> "warning"],
    [ID |-> "gmc_gender_apparel", Field |-> "gender", Type |-> "required",
     Value |-> NoValue, Severity |-> "warning"],
    [ID |-> "gmc_age_group_apparel", Field |-> "age_group", Type |-> "required",
     Value |-> NoValue, Severity |-> "warning"],
    [ID |-> "gmc_size_apparel", Field |-> "size", Type |-> "required",
     Value |-> NoValue, Severity |-> "warning"],
    [ID |-> "gmc_item_group_variants", Field |-> "item_group_id", Type |-> "required",
     Value |-> NoValue, Severity |-> "info"],
    [ID |-> "gmc_material_recommended", Field |-> "material", Type |-> "required",
     Value |-> NoValue, Severity |-> "info"],
    [ID |-> "gmc_pattern_recommended", Field |-> "pattern", Type |-> "required",
     Value |-> NoValue, Severity |-> "info"],
    [ID |-> "gmc_condition_recommended", Field |-> "condition", Type |-> "required",
     Value |-> NoValue, Severity |-> "info"]>>

\* defaultGMCRules: the standard Google Merchant Center rules.
defaultGMCRules == <<
    [ID |-> "gmc_id_required", Field |-> "id", Type |-> "required",
     Value |-> NoValue, Severity |-> "error"],
    [ID |-> "gmc_title_required", Field |-> "title", Type |-> "required",
     Value |-> NoValue, Severity |-> "error"],
    [ID |-> "gmc_description_required", Field |-> "description", Type |-> "required",
     Value |-> NoValue, Severity |-> "error"],
    [ID |-> "gmc_link_required", Field |-> "link", Type |-> "required",
     Value |-> NoValue, Severity |-> "error"],
    [ID |-> "gmc_image_required", Field |-> "image_link", Type |-> "required",
     Value |-> NoValue, Severity |-> "error"],
    [ID |-> "gmc_price_required", Field |-> "price", Type |-> "required",
     Value |-> NoValue, Severity |-> "error"],
    [ID |-> "gmc_availability_required", Field |-> "availability", Type |-> "required",
     Value |-> NoValue, Severity |-> "error"],
    [ID |-> "gmc_title_min", Field |-> "title", Type |-> "min_length",
     Value |-> Number(30), Severity |-> "warning"],
    [ID |-> "gmc_title_max", Field |-> "title", Type |-> "max_length",
     Value |-> Number(150), Severity |-> "error"],
    [ID |-> "gmc_description_min", Field |-> "description", Type |-> "min_length",
     Value |-> Number(50), Severity |-> "warning"],
    [ID |-> "gmc_description_max", Field |-> "description", Type |-> "max_length",
     Value |-> Number(5000), Severity |-> "error"],
    [ID |-> "gmc_link_url", Field |-> "link", Type |-> "url",
     Value |-> NoValue, Severity |-> "error"],
    [ID |-> "gmc_image_url", Field |-> "image_link", Type |-> "url",
     Value |-> NoValue, Severity |-> "error"],
    [ID |-> "gmc_title_promo", Field |-> "title", Type |-> "forbidden_words",
     Value |-> Words(<<<<"f", "r", "e", "e", " ", "s", "h", "i", "p", "p", "i", "n", "g">>,
                 <<"s", "a", "l", "e">>,
                 <<"d", "i", "s", "c", "o", "u", "n", "t">>,
                 <<"p", "r", "o", "m", "o">>,
                 <<"s", "o", "l", "d", "e", "s">>,
                 <<"-", "5", "0", "%">>,
                 <<"-", "3", "0", "%">>,
                 <<"-", "2", "0", "%">>,
                 <<"l", "i", "v", "r", "a", "i", "s", "o", "n", " ", "g", "r", "a", "t", "u", "i", "t", "e">>,
                 <<"g", "r", "a", "t", "u", "i", "t">>,
                 <<"o", "f", "f", "r", "e">>,
                 <<"p", "r", "o", "m", "o", "t", "i", "o", "n">>>>), Severity |-> "error"],
    [ID |-> "gmc_description_promo", Field |-> "description", Type |-> "forbidden_words",
     Value |-> Words(<<<<"f", "r", "e", "e", " ", "s", "h", "i", "p", "p", "i", "n", "g">>,
                 <<"l", "i", "v", "r", "a", "i", "s", "o", "n", " ", "g", "r", "a", "t", "u", "i", "t", "e">>,
                 <<"c", "l", "i", "c", "k", " ", "h", "e", "r", "e">>,
                 <<"b", "u", "y", " ", "n", "o", "w">>,
                 <<"l", "i", "m", "i", "t", "e", "d", " ", "t", "i", "m", "e">>>>), Severity |-> "warning"],
    [ID |-> "gmc_brand_recommended", Field |-> "brand", Type |-> "required",
     Value |-> NoValue, Severity |-> "warning"],
    [ID |-> "gmc_gtin_recommended", Field |-> "gtin", Type |-> "required",
     Value |-> NoValue, Severity |-> "warning"],
    [ID |-> "gmc_product_type_recommended", Field |-> "product_type", Type |-> "required",
     Value |-> NoValue, Severity |-> "info"],
    [ID |-> "gmc_google_category_recommended", Field |-> "google_product_category", Type |-> "required",
     Value |-> NoValue, Severity |-> "info"],
    [ID |-> "gmc_color_apparel", Field |-> "color", Type |-> "required",
     Value |-> NoValue, Severity |-> "warning"],
    [ID |-> "gmc_gender_apparel", Field |-> "gender", Type |-> "required",
     Value |-> NoValue, Severity |-> "warning"],
    [ID |-> "gmc_age_group_apparel", Field |-> "age_group", Type |-> "required",
     Value |-> NoValue, Severity |-> "warning"],
    [ID |-> "gmc_size_apparel", Field |-> "size", Type |-> "required",
     Value |-> NoValue, Severity |-> "warning"],
    [ID |-> "gmc_item_group_variants", Field |-> "item_group_id", Type |-> "required",
     Value |-> NoValue, Severity |-> "info"],
    [ID |-> "gmc_material_recommended", Field |-> "material", Type |-> "required",
     Value |-> NoValue, Severity |-> "info"],
    [ID |-> "gmc_pattern_recommended", Field |-> "pattern", Type |-> "required",
     Value |-> NoValue, Severity |-> "info"],
    [ID |-> "gmc_condition_recommended", Field |-> "condition", Type |-> "required",
     Value |-> NoValue, Severity |-> "info"]>>

\* NewHardRuleValidator
NewHardRuleValidator == [rules |-> defaultGMCRules]

\* strings.TrimSpace(value) == ""
IsBlank(value) == \A i \in DOMAIN value : IsSpace(value[i])

\* strings.Replace(s, old, "", 1) for a one-character old.
RECURSIVE RemoveFirst(_, _)
RemoveFirst(s, c) ==
    IF s = <<>> THEN <<>>
    ELSE IF Head(s) = c THEN Tail(s)
    ELSE <<Head(s)>> \o RemoveFirst(Tail(s), c)

\* strings.TrimRight(s, c) for a one-character cutset.
RECURSIVE TrimRight(_, _)
TrimRight(s, c) ==
    IF s # <<>> /\ s[Len(s)] = c THEN TrimRight(SubSeq(s, 1, Len(s) - 1), c) ELSE s

\* toString of a value of the field map: nil, a string, or a float64, whose
\* entry holds string(rune(int(val))), the character with that code point.
toString(entry) ==
    CASE entry.kind = "null" -> <<>>
      [] entry.kind = "string" -> entry.value
      [] entry.kind = "number" ->
            TrimRight(TrimRight(RemoveFirst(entry.value, "."), "0"), ".")

\* The entries of the field map under a key, and under a key equal to it when
\* lower-cased.
EntriesOf(data, field) == {i \in DOMAIN data : data[i].field = field}
EntriesLike(data, field) ==
    {i \in DOMAIN data : ToLowerName(data[i].field) = ToLowerName(field)}

\* getFieldValue: the exact key, then a key that matches when lower-cased, else
\* "" (the field maps of the model hold one such key at most).
getFieldValue(data, field) ==
    IF EntriesOf(data, field) # {}
    THEN toString(data[CHOOSE i \in EntriesOf(data, field) : TRUE])
    ELSE IF EntriesLike(data, field) # {}
    THEN toString(data[CHOOSE i \in EntriesLike(data, field) : TRUE])
    ELSE <<>>

NoViolation == [none |-> TRUE]
RuleViolation(rule) == [RuleID |-> rule.ID, Field |-> rule.Field]

\* checkRule: the violation of the rule by the value, NoViolation when there is
\* none; a pattern without metacharacters matches a value that contains it.
checkRule(rule, value) ==
    CASE rule.Type = "required" ->
            IF IsBlank(value) THEN RuleViolation(rule) ELSE NoViolation
      [] rule.Type = "min_length" ->
            IF rule.Value.kind = "number" /\ Len(value) < rule.Value.n
            THEN RuleViolation(rule) ELSE NoViolation
      [] rule.Type = "max_length" ->
            IF rule.Value.kind = "number" /\ Len(value) > rule.Value.n
            THEN RuleViolation(rule) ELSE NoViolation
      [] rule.Type = "pattern" ->
            IF rule.Value.kind = "string" /\ ~Contains(value, rule.Value.str)
            THEN RuleViolation(rule) ELSE NoViolation
      [] rule.Type = "forbidden_words" ->
            IF /\ rule.Value.kind = "words"
               /\ \E i \in DOMAIN rule.Value.words :
                     Contains(ToLower(value), ToLower(rule.Value.words[i]))
            THEN RuleViolation(rule) ELSE NoViolation
      [] rule.Type = "url" ->
            IF /\ value # <<>>
               /\ ~HasPrefix(value, <<"h", "t", "t", "p", ":", "/", "/">>)
               /\ ~HasPrefix(value, <<"h", "t", "t", "p", "s", ":", "/", "/">>)
            THEN RuleViolation(rule) ELSE NoViolation
      [] OTHER -> NoViolation

\* The body of "for _, rule := range v.rules" with a warning that clears Valid.
CheckedRuleWarningInvalidates(result, rule, violation) ==
    IF violation = NoViolation THEN [result EXCEPT !.Checked = @ + 1]
    ELSE IF rule.Severity = "error"
    THEN [result EXCEPT !.Checked = @ + 1, !.Valid = FALSE,
                        !.Violations = Append(@, violation)]
    ELSE [result EXCEPT !.Checked = @ + 1, !.Valid = FALSE,
                        !.Warnings = Append(@, violation)]

\* The body of "for _, rule := range v.rules": the rule is counted; its
\* violation goes to Violations and clears Valid when the severity is error,
\* to Warnings otherwise.
CheckedRule(result, rule, violation) ==
    IF violation = NoViolation THEN [result EXCEPT !.Checked = @ + 1]
    ELSE IF rule.Severity = "error"
    THEN [result EXCEPT !.Checked = @ + 1, !.Valid = FALSE,
                        !.Violations = Append(@, violation)]
    ELSE [result EXCEPT !.Checked = @ + 1, !.Warnings = Append(@, violation)]

RECURSIVE CheckRules(_, _, _)
CheckRules(result, rules, data) ==
    IF rules = <<>> THEN result
    ELSE CheckRules(CheckedRule(result, Head(rules),
                                checkRule(Head(rules),
                                          getFieldValue(data, Head(rules).Field))),
                    Tail(rules), data)

NewValidationResult ==
    [Valid |-> TRUE, Violations |-> <<>>, Warnings |-> <<>>, Checked |-> 0]

\* Validate: the parse error of a record that is no field map, else the rules
\* in order.
Validate(rules, record) ==
    IF ~record.parses
    THEN [NewValidationResult EXCEPT
             !.Valid = FALSE,
             !.Violations = <<[RuleID |-> "parse_error", Field |-> "_json"]>>]
    ELSE CheckRules(NewValidationResult, rules, record.fields)

\* No Validate call made.
NoValidation == [pc |-> "none"]
ValidatorIdle == validator = NewHardRuleValidator /\ validation = NoValidation

\* No proposal stored.
ProposalsIdle == dbProposals = <<>>

\* No Agent call made, the context not cancelled.
NoSession == [pc |-> "none"]
SessionIdle == session = NoSession /\ ctxDone = FALSE

-----------------------------------------------------------------------------
(* tools.DiffEngine (src/internal/agent/tools/diff.go)                      *)

\* The runes tokenize splits on.
Delimiters == {" ", "\t", "\n", ",", ".", ";"}

\* tokenize: the loop over the runes of s, with the words so far and the word
\* being built.
RECURSIVE TokenizeFrom(_, _, _)
TokenizeFrom(s, words, word) ==
    IF s = <<>> THEN (IF Len(word) > 0 THEN Append(words, word) ELSE words)
    ELSE IF Head(s) \in Delimiters
         THEN TokenizeFrom(Tail(s), IF Len(word) > 0 THEN Append(words, word) ELSE words,
                           <<>>)
         ELSE TokenizeFrom(Tail(s), words, Append(word, Head(s)))

tokenize(s) == TokenizeFrom(s, <<>>, <<>>)

\* beforeSet, afterSet: the lower-cased words.
LowerSet(words) == {ToLower(words[i]) : i \in DOMAIN words}

\* "Find added words", "Find removed words": the words whose lower-cased form
\* is not in the other set, in order.
WordsNotIn(words, set) ==
    LET keep(w) == ToLower(w) \notin set IN SelectSeq(words, keep)

\* "Calculate similarity (Jaccard similarity)", as the fraction num/den.
Jaccard(beforeSet, afterSet) ==
    IF Cardinality(beforeSet) = 0 /\ Cardinality(afterSet) = 0
    THEN [num |-> 1, den |-> 1]
    ELSE IF Cardinality(beforeSet \cup afterSet) > 0
         THEN [num |-> Cardinality(beforeSet \cap afterSet),
               den |-> Cardinality(beforeSet) + Cardinality(afterSet)
                       - Cardinality(beforeSet \cap afterSet)]
         ELSE [num |-> 0, den |-> 1]

\* "Common prefix": the loop on i (an index from 0, as in the source).
RECURSIVE PrefixLoop(_, _, _)
PrefixLoop(before, after, i) ==
    IF i < Len(before) /\ i < Len(after) /\ before[i + 1] = after[i + 1]
    THEN PrefixLoop(before, after, i + 1)
    ELSE i

\* "Common suffix": the loop on beforeEnd, afterEnd and j.
RECURSIVE SuffixLoop(_, _, _, _, _, _)
SuffixLoop(before, after, i, beforeEnd, afterEnd, j) ==
    IF beforeEnd > i /\ afterEnd > i /\ before[beforeEnd + 1] = after[afterEnd + 1]
    THEN SuffixLoop(before, after, i, beforeEnd - 1, afterEnd - 1, j + 1)
    ELSE [beforeEnd |-> beforeEnd, afterEnd |-> afterEnd, j |-> j]

\* s[lo:hi] of the source.
Slice(s, lo, hi) == SubSeq(s, lo + 1, hi)

\* The four appends of buildChanges, for the i and the ends the loops leave.
ChangesOf(before, after, i, ends) ==
    (IF i > 0
     THEN <<[Type |-> "equal", Text |-> Slice(before, 0, i), Position |-> 0]>>
     ELSE <<>>)
    \o (IF ends.beforeEnd >= i
        THEN <<[Type |-> "delete", Text |-> Slice(before, i, ends.beforeEnd + 1),
                Position |-> i]>>
        ELSE <<>>)
    \o (IF ends.afterEnd >= i
        THEN <<[Type |-> "insert", Text |-> Slice(after, i, ends.afterEnd + 1),
                Position |-> i]>>
        ELSE <<>>)
    \o (IF ends.j > 0
        THEN <<[Type |-> "equal",
                Text |-> Slice(before, Len(before) - ends.j, Len(before)),
                Position |-> Len(after) - ends.j]>>
        ELSE <<>>)

SuffixFrom(before, after, i) ==
    SuffixLoop(before, after, i, Len(before) - 1, Len(after) - 1, 0)

buildChanges(before, after) ==
    ChangesOf(before, after, PrefixLoop(before, after, 0),
              SuffixFrom(before, after, PrefixLoop(before, after, 0)))

\* "Determine change type"
ChangeType(before, after) ==
    IF before = <<>> /\ after # <<>> THEN "added"
    ELSE IF before # <<>> /\ after = <<>> THEN "removed"
    ELSE IF before = after THEN "unchanged"
    ELSE "modified"

ComputeDiff(field, before, after) ==
    IF ChangeType(before, after) = "unchanged"
    THEN [Field |-> field, Before |-> before, After |-> after,
          ChangeType |-> "unchanged", Changes |-> <<>>, AddedWords |-> <<>>,
          RemovedWords |-> <<>>, Similarity |-> [num |-> 1, den |-> 1]]
    ELSE [Field |-> field, Before |-> before, After |-> after,
          ChangeType |-> ChangeType(before, after),
          Changes |-> buildChanges(before, after),
          AddedWords |-> WordsNotIn(tokenize(after), LowerSet(tokenize(before))),
          RemovedWords |-> WordsNotIn(tokenize(before), LowerSet(tokenize(after))),
          Similarity |-> Jaccard(LowerSet(tokenize(before)), LowerSet(tokenize(after)))]

\* No call of ComputeDiff, of Agent.Run or of the staged FastPipeline.Run.
NoDiff == [pc |-> "none"]
LateIdle == diff = NoDiff /\ toolRun = NoRun /\ stageRun = NoRun

ExtIdle == SessionIdle /\ ValidatorIdle /\ ProposalsIdle /\ LateIdle

-----------------------------------------------------------------------------
(* sync.RWMutex of the registry (field mu), with Go's semantics: Lock first *)
(* excludes other writers and announces itself, which blocks every later    *)
(* RLock, then waits for the readers inside to leave.                        *)

NoThread == "none"

NewRWMutex ==
    [readers |-> [t \in Threads |-> 0], writer |-> NoThread, pending |-> NoThread]

\* RLock returns only while no writer holds or waits for the lock.
CanRLock(m) == m.writer = NoThread /\ m.pending = NoThread
RLock(m, t) == [m EXCEPT !.readers[t] = @ + 1]
RUnlock(m, t) == [m EXCEPT !.readers[t] = @ - 1]

\* Lock, first half: take the writers' mutex and announce the writer.
CanAnnounce(m) == m.writer = NoThread /\ m.pending = NoThread
Announce(m, t) == [m EXCEPT !.pending = t]

\* Lock, second half: return once no reader is inside.
CanLock(m, t) == m.pending = t /\ \A u \in Threads : m.readers[u] = 0
Lock(m, t) == [m EXCEPT !.pending = NoThread, !.writer = t]
Unlock(m, t) == [m EXCEPT !.writer = NoThread]

\* A caller that is in no registry method.
Idle ==
    [pc |-> "idle", op |-> "none", field |-> "", id |-> Nil, evs |-> <<>>,
     best |-> Nil, todo |-> {}, facts |-> <<>>]

-----------------------------------------------------------------------------
(* Sequential use of one registry: every call runs to completion.          *)

InitRegistry ==
    /\ registry = NewEvidenceRegistry
    /\ nextID = 1
    /\ verifyCalled = {}
    /\ mu = NewRWMutex
    /\ threads = [t \in Threads |-> Idle]
    /\ RiskIdle
    /\ ExtIdle
    /\ PipelinesIdle

CanRegister == nextID <= MaxEvidence

CallRegisterFromFeed ==
    /\ CanRegister
    /\ \E p \in ProductIDs, f \in FieldNames, v \in Values :
          registry' = RegisterFromFeed(registry, nextID, p, f, v, nextID)
    /\ nextID' = nextID + 1
    /\ UNCHANGED <<verifyCalled, concVars, riskVars, plVars, extVars>>

\* The values of a field map: strings, among them the empty one, and null.
FeedValues ==
    {[kind |-> "string", value |-> v] : v \in Values \cup {<<>>}}
    \cup {[kind |-> "null", value |-> <<>>]}

\* The raw data LoadFromFeedData is called with: data that is no field map, and
\* field maps of up to two keys, in the orders the map can be ranged over.
FeedData ==
    {[parses |-> FALSE, fields |-> <<>>], [parses |-> TRUE, fields |-> <<>>]}
    \cup {[parses |-> TRUE,
           fields |-> <<[field |-> f, kind |-> x.kind, value |-> x.value]>>] :
             f \in FieldNames, x \in FeedValues}
    \cup {[parses |-> TRUE,
           fields |-> <<[field |-> k[1], kind |-> x.kind, value |-> x.value],
                        [field |-> k[2], kind |-> y.kind, value |-> y.value]>>] :
             k \in {fg \in FieldNames \X FieldNames : fg[1] # fg[2]},
             x \in FeedValues, y \in FeedValues}

\* LoadFromFeedData: an error when the data is no field map; else every string
\* that is not empty is registered as feed evidence.
CallLoadFromFeedData ==
    /\ \E p \in ProductIDs, data \in FeedData :
          IF data.parses
          THEN LET loaded == LoadFields(registry, nextID, p, data.fields)
               IN  /\ loaded.nextID <= MaxEvidence + 1
                   /\ registry' = loaded.registry
                   /\ nextID' = loaded.nextID
          ELSE UNCHANGED <<registry, nextID>>
    /\ UNCHANGED <<verifyCalled, concVars, riskVars, plVars, extVars>>

CallRegisterFromImage ==
    /\ CanRegister
    /\ \E p \in ProductIDs, f \in FieldNames, v \in Values, u \in ImageURLs,
          c \in Confidences :
          registry' = RegisterFromImage(registry, nextID, p, f, v, u, "seen", c, nextID)
    /\ nextID' = nextID + 1
    /\ UNCHANGED <<verifyCalled, concVars, riskVars, plVars, extVars>>

CallRegisterFromWeb ==
    /\ CanRegister
    /\ \E p \in ProductIDs, f \in FieldNames, v \in Values, u \in PageURLs,
          c \in Confidences :
          registry' = RegisterFromWeb(registry, nextID, p, f, v, u, "snippet", c, nextID)
    /\ nextID' = nextID + 1
    /\ UNCHANGED <<verifyCalled, concVars, riskVars, plVars, extVars>>

CallRegisterFromUser ==
    /\ CanRegister
    /\ \E p \in ProductIDs, f \in FieldNames, v \in Values, u \in Users :
          registry' = RegisterFromUser(registry, nextID, p, f, v, u, nextID)
    /\ nextID' = nextID + 1
    /\ UNCHANGED <<verifyCalled, concVars, riskVars, plVars, extVars>>

\* VerifyEvidence with any ID: a registered one, or one the registry never issued.
CallVerifyEvidence ==
    /\ \E id \in DOMAIN registry.evidence \cup {UnknownID}, by \in Verifiers :
          /\ registry' = VerifyEvidence(registry, id, by)
          /\ verifyCalled' = verifyCalled \cup {id}
    /\ UNCHANGED <<nextID, concVars, riskVars, plVars, extVars>>

NextRegistry ==
    \/ CallRegisterFromFeed
    \/ CallLoadFromFeedData
    \/ CallRegisterFromImage
    \/ CallRegisterFromWeb
    \/ CallRegisterFromUser
    \/ CallVerifyEvidence

SpecRegistry == InitRegistry /\ [][NextRegistry]_vars

-----------------------------------------------------------------------------
(* Claims about the registry used sequentially                             *)

Entry(id) == registry.evidence[id]

\* The verified entries of a field, read off the entries themselves.
VerifiedOf(f) ==
    {id \in DOMAIN registry.evidence : Entry(id).field = f /\ Entry(id).verified}

\* C1: GetBestEvidence(field) returns none exactly when the field has no verified
\* evidence, and otherwise a verified entry of that field whose confidence is at
\* least that of every other verified entry of the field; an unverified entry is
\* never returned, whatever its confidence.
C1_BestIsVerifiedMax ==
    \A f \in FieldNames :
        LET best == GetBestEvidence(registry, f) IN
        /\ (best = Nil) <=> (VerifiedOf(f) = {})
        /\ best # Nil =>
              /\ best \in VerifiedOf(f)
              /\ \A o \in VerifiedOf(f) : Entry(best).confidence >= Entry(o).confidence

\* An unverified entry outranks the verified one in confidence and is passed over.
C1_Witness ==
    \E f \in FieldNames : \E u, v \in DOMAIN registry.evidence :
        /\ Entry(u).field = f /\ Entry(v).field = f
        /\ ~Entry(u).verified /\ Entry(v).verified
        /\ Entry(u).confidence > Entry(v).confidence
        /\ GetBestEvidence(registry, f) = v

\* C2: an entry VerifyEvidence was never called with carries the trust metadata
\* of its registration: feed and user entries are verified with confidence 1.0,
\* an image entry is verified exactly when its confidence is >= 0.85, a web
\* entry is unverified for every confidence.
C2_TrustFixedByOrigin ==
    \A id \in DOMAIN registry.evidence \ verifyCalled :
        LET e == Entry(id) IN
        /\ e.sourceType \in {"feed", "user"} => e.verified /\ e.confidence = 100
        /\ e.sourceType = "image" => (e.verified <=> e.confidence >= 85)
        /\ e.sourceType = "web" => ~e.verified

\* Both sides of the 0.85 boundary: 0.85 is verified, 0.84 is not.
C2_Witness ==
    \E a, b \in DOMAIN registry.evidence \ verifyCalled :
        /\ Entry(a).sourceType = "image" /\ Entry(a).confidence = 85 /\ Entry(a).verified
        /\ Entry(b).sourceType = "image" /\ Entry(b).confidence = 84 /\ ~Entry(b).verified

\* C3: before VerifyEvidence is called with its ID, a web entry is not returned by
\* GetBestEvidence and its value is in GetAllowedFacts only if another, verified
\* entry of the field carries that value; after the call the entry is verified and
\* is returned whenever its confidence exceeds that of every other verified entry
\* of its field.
C3_WebNeedsVerifyCall ==
    \A id \in DOMAIN registry.evidence :
        LET e == Entry(id)
            facts == GetAllowedFacts(registry)
            others == VerifiedOf(e.field) \ {id}
        IN  e.sourceType = "web" =>
            /\ id \notin verifyCalled =>
                  /\ GetBestEvidence(registry, e.field) # id
                  /\ (\A o \in others : Entry(o).value # e.value) =>
                        (e.field \notin DOMAIN facts \/ facts[e.field] # e.value)
            /\ id \in verifyCalled =>
                  /\ e.verified
                  /\ GetBestEvidence(registry, e.field) # Nil
                  /\ (\A o \in others : Entry(o).confidence < e.confidence) =>
                        /\ GetBestEvidence(registry, e.field) = id
                        /\ facts[e.field] = e.value

\* A verified-by-call web entry is the best of its field while a second web entry
\* of higher confidence, never passed to VerifyEvidence, is passed over.
C3_Witness ==
    \E a, b \in DOMAIN registry.evidence :
        /\ Entry(a).sourceType = "web" /\ Entry(b).sourceType = "web"
        /\ Entry(a).field = Entry(b).field
        /\ a \in verifyCalled /\ b \notin verifyCalled
        /\ Entry(b).confidence > Entry(a).confidence
        /\ Entry(a).value # Entry(b).value
        /\ GetBestEvidence(registry, Entry(a).field) = a
        /\ GetAllowedFacts(registry)[Entry(a).field] = Entry(a).value

\* C4: once registered, an entry changes only by its verification (the verified
\* flag going from false to true, stamped with who verified), and does so at most
\* once: a call on an already verified entry, and every Register* call, leave the
\* existing entry unchanged.
C4_EntryImmutableAfterVerified ==
    [][\A id \in DOMAIN registry.evidence :
          /\ id \in DOMAIN registry'.evidence
          /\ LET e == registry.evidence[id]
                 e2 == registry'.evidence[id]
             IN  IF e.verified
                 THEN e2 = e
                 ELSE [e2 EXCEPT !.verified = e.verified,
                                 !.verifiedBy = e.verifiedBy] = e]_vars

-----------------------------------------------------------------------------
(* Concurrent use of one registry.  Every method is a sequence of steps:    *)
(* taking the lock, each access to the maps or to an entry, releasing the   *)
(* lock.  Steps of different callers interleave.                            *)

RegisterOps == {"RegisterFromFeed", "RegisterFromImage", "RegisterFromWeb",
                "RegisterFromUser"}
ConcValues == {<<"r", "e", "d">>}
ConcConfidences == {95}

InitConcurrent ==
    /\ registry = NewEvidenceRegistry
    /\ nextID = 1
    /\ verifyCalled = {}
    /\ mu = NewRWMutex
    /\ threads = [t \in Threads |-> Idle]
    /\ RiskIdle
    /\ ExtIdle
    /\ PipelinesIdle

\* Register* calls that have started and not yet inserted their entry.
Registering == {t \in Threads : threads[t].op \in RegisterOps
                                /\ threads[t].pc \in {"lock", "lockwait", "write"}}

\* A caller enters one of the Register* methods.
StartRegister(t) ==
    /\ threads[t].pc = "idle"
    /\ nextID + Cardinality(Registering) <= MaxEvidence
    /\ \E op \in RegisterOps :
          threads' = [threads EXCEPT ![t] = [Idle EXCEPT !.pc = "lock", !.op = op]]
    /\ UNCHANGED <<regVars, mu, riskVars, plVars, extVars>>

\* A caller enters VerifyEvidence with an ID some Register* call returned.
StartVerifyEvidence(t) ==
    /\ threads[t].pc = "idle"
    /\ \E id \in DOMAIN registry.evidence :
          threads' = [threads EXCEPT ![t] =
                         [Idle EXCEPT !.pc = "lock", !.op = "VerifyEvidence", !.id = id]]
    /\ UNCHANGED <<regVars, mu, riskVars, plVars, extVars>>

\* A caller enters GetEvidenceForField, GetBestEvidence (whose first statement
\* is the call of GetEvidenceForField) or GetAllowedFacts.
StartGetEvidenceForField(t) ==
    /\ threads[t].pc = "idle"
    /\ \E f \in FieldNames :
          threads' = [threads EXCEPT ![t] =
                         [Idle EXCEPT !.pc = "gef_rlock", !.op = "GetEvidenceForField",
                                      !.field = f]]
    /\ UNCHANGED <<regVars, mu, riskVars, plVars, extVars>>

StartGetBestEvidence(t) ==
    /\ threads[t].pc = "idle"
    /\ \E f \in FieldNames :
          threads' = [threads EXCEPT ![t] =
                         [Idle EXCEPT !.pc = "gef_rlock", !.op = "GetBestEvidence",
                                      !.field = f]]
    /\ UNCHANGED <<regVars, mu, riskVars, plVars, extVars>>

StartGetAllowedFacts(t) ==
    /\ threads[t].pc = "idle"
    /\ threads' = [threads EXCEPT ![t] =
                      [Idle EXCEPT !.pc = "gaf_rlock", !.op = "GetAllowedFacts"]]
    /\ UNCHANGED <<regVars, mu, riskVars, plVars, extVars>>

\* r.mu.Lock() of Register* and VerifyEvidence, in its two halves.
WriterAnnounce(t) ==
    /\ threads[t].pc = "lock"
    /\ CanAnnounce(mu)
    /\ mu' = Announce(mu, t)
    /\ threads' = [threads EXCEPT ![t].pc = "lockwait"]
    /\ UNCHANGED <<regVars, riskVars, plVars, extVars>>

WriterLock(t) ==
    /\ threads[t].pc = "lockwait"
    /\ CanLock(mu, t)
    /\ mu' = Lock(mu, t)
    /\ threads' = [threads EXCEPT ![t].pc = "write"]
    /\ UNCHANGED <<regVars, riskVars, plVars, extVars>>

\* The body of a Register* method, under the write lock.
RegisterWrite(t) ==
    /\ threads[t].pc = "write"
    /\ threads[t].op \in RegisterOps
    /\ \E p \in ProductIDs, f \in FieldNames, v \in ConcValues, c \in ConcConfidences,
          iu \in ImageURLs, pu \in PageURLs, u \in Users :
          registry' =
             CASE threads[t].op = "RegisterFromFeed" ->
                     RegisterFromFeed(registry, nextID, p, f, v, nextID)
               [] threads[t].op = "RegisterFromImage" ->
                     RegisterFromImage(registry, nextID, p, f, v, iu, "seen", c, nextID)
               [] threads[t].op = "RegisterFromWeb" ->
                     RegisterFromWeb(registry, nextID, p, f, v, pu, "snippet", c, nextID)
               [] threads[t].op = "RegisterFromUser" ->
                     RegisterFromUser(registry, nextID, p, f, v, u, nextID)
    /\ nextID' = nextID + 1
    /\ threads' = [threads EXCEPT ![t].pc = "unlock"]
    /\ UNCHANGED <<verifyCalled, mu, riskVars, plVars, extVars>>

\* The body of VerifyEvidence, under the write lock.
VerifyWrite(t) ==
    /\ threads[t].pc = "write"
    /\ threads[t].op = "VerifyEvidence"
    /\ \E by \in Verifiers : registry' = VerifyEvidence(registry, threads[t].id, by)
    /\ verifyCalled' = verifyCalled \cup {threads[t].id}
    /\ threads' = [threads EXCEPT ![t].pc = "unlock"]
    /\ UNCHANGED <<nextID, mu, riskVars, plVars, extVars>>

\* The deferred r.mu.Unlock(); the method returns.
WriterUnlock(t) ==
    /\ threads[t].pc = "unlock"
    /\ mu' = Unlock(mu, t)
    /\ threads' = [threads EXCEPT ![t] = Idle]
    /\ UNCHANGED <<regVars, riskVars, plVars, extVars>>

\* GetEvidenceForField: r.mu.RLock()
GEFRLock(t) ==
    /\ threads[t].pc = "gef_rlock"
    /\ CanRLock(mu)
    /\ mu' = RLock(mu, t)
    /\ threads' = [threads EXCEPT ![t].pc = "gef_read"]
    /\ UNCHANGED <<regVars, riskVars, plVars, extVars>>

\* GetEvidenceForField: the reads of byField and evidence, under the read lock.
GEFRead(t) ==
    /\ threads[t].pc = "gef_read"
    /\ threads' = [threads EXCEPT
                      ![t].evs = GetEvidenceForField(registry, threads[t].field),
                      ![t].pc = "gef_runlock"]
    /\ UNCHANGED <<regVars, mu, riskVars, plVars, extVars>>

\* GetEvidenceForField: the deferred r.mu.RUnlock(); return to the caller, which
\* is GetBestEvidence unless GetEvidenceForField was called directly.
GEFRUnlock(t) ==
    /\ threads[t].pc = "gef_runlock"
    /\ mu' = RUnlock(mu, t)
    /\ threads' = [threads EXCEPT ![t] =
                      IF threads[t].op = "GetEvidenceForField"
                      THEN Idle
                      ELSE [threads[t] EXCEPT !.pc = "gbe_loop", !.best = Nil]]
    /\ UNCHANGED <<regVars, riskVars, plVars, extVars>>

\* GetBestEvidence: one iteration of the loop, reading ev.Verified and
\* ev.Confidence through the pointer; GetBestEvidence takes no lock of its own.
GBELoop(t) ==
    /\ threads[t].pc = "gbe_loop"
    /\ threads[t].evs # <<>>
    /\ threads' = [threads EXCEPT
                      ![t].best = BestStep(registry, threads[t].best, Head(threads[t].evs)),
                      ![t].evs = Tail(threads[t].evs)]
    /\ UNCHANGED <<regVars, mu, riskVars, plVars, extVars>>

\* GetBestEvidence: return best, to GetAllowedFacts or to the caller.
GBEReturn(t) ==
    /\ threads[t].pc = "gbe_loop"
    /\ threads[t].evs = <<>>
    /\ threads' = [threads EXCEPT ![t] =
                      IF threads[t].op = "GetBestEvidence"
                      THEN Idle
                      ELSE [threads[t] EXCEPT !.pc = "gaf_take"]]
    /\ UNCHANGED <<regVars, mu, riskVars, plVars, extVars>>

\* GetAllowedFacts: r.mu.RLock(), then the range over the keys of byField.
GAFRLock(t) ==
    /\ threads[t].pc = "gaf_rlock"
    /\ CanRLock(mu)
    /\ mu' = RLock(mu, t)
    /\ threads' = [threads EXCEPT ![t].pc = "gaf_loop",
                                  ![t].todo = DOMAIN registry.byField]
    /\ UNCHANGED <<regVars, riskVars, plVars, extVars>>

\* GetAllowedFacts: next key of the map (Go ranges over a map in any order);
\* call GetBestEvidence(field), holding the read lock.
GAFLoop(t) ==
    /\ threads[t].pc = "gaf_loop"
    /\ \E f \in threads[t].todo :
          threads' = [threads EXCEPT ![t].field = f,
                                     ![t].todo = threads[t].todo \ {f},
                                     ![t].pc = "gef_rlock"]
    /\ UNCHANGED <<regVars, mu, riskVars, plVars, extVars>>

\* GetAllowedFacts: facts[field] = best.Value when best is not nil.
GAFTake(t) ==
    /\ threads[t].pc = "gaf_take"
    /\ threads' = [threads EXCEPT
                      ![t].facts = IF threads[t].best = Nil THEN @
                                   ELSE MapPut(@, threads[t].field,
                                               registry.evidence[threads[t].best].value),
                      ![t].pc = "gaf_loop"]
    /\ UNCHANGED <<regVars, mu, riskVars, plVars, extVars>>

\* GetAllowedFacts: the loop is over; the deferred r.mu.RUnlock(); return facts.
GAFRUnlock(t) ==
    /\ threads[t].pc = "gaf_loop"
    /\ threads[t].todo = {}
    /\ mu' = RUnlock(mu, t)
    /\ threads' = [threads EXCEPT ![t] = Idle]
    /\ UNCHANGED <<regVars, riskVars, plVars, extVars>>

NextConcurrent ==
    \E t \in Threads :
        \/ StartRegister(t)
        \/ StartVerifyEvidence(t)
        \/ StartGetEvidenceForField(t)
        \/ StartGetBestEvidence(t)
        \/ StartGetAllowedFacts(t)
        \/ WriterAnnounce(t)
        \/ WriterLock(t)
        \/ RegisterWrite(t)
        \/ VerifyWrite(t)
        \/ WriterUnlock(t)
        \/ GEFRLock(t)
        \/ GEFRead(t)
        \/ GEFRUnlock(t)
        \/ GBELoop(t)
        \/ GBEReturn(t)
        \/ GAFRLock(t)
        \/ GAFLoop(t)
        \/ GAFTake(t)
        \/ GAFRUnlock(t)

SpecConcurrent == InitConcurrent /\ [][NextConcurrent]_vars

-----------------------------------------------------------------------------
(* Claims about the registry used concurrently                             *)

\* The caller's next step writes the maps of the registry (an insert).
WritesMaps(t) == threads[t].pc = "write" /\ threads[t].op \in RegisterOps

\* The caller's next step writes the fields of entry id.
WritesEntry(t, id) ==
    threads[t].pc = "write" /\ threads[t].op = "VerifyEvidence" /\ threads[t].id = id

\* The caller's next step reads the maps of the registry.
ReadsMaps(t) == threads[t].pc \in {"gef_read", "gaf_loop"}

\* The caller's next step reads the fields of entry id.
ReadsEntry(t, id) ==
    \/ threads[t].pc = "gbe_loop" /\ threads[t].evs # <<>>
       /\ id \in {Head(threads[t].evs), threads[t].best}
    \/ threads[t].pc = "gaf_take" /\ threads[t].best = id

\* C5: reads and writes are mutually exclusive: no caller is about to read the
\* maps while a writer is about to insert into them, and no caller is about to
\* read the fields of an entry (Verified, Confidence, Value) while a writer is
\* about to modify that entry.
C5_ReadsExcludeWrites ==
    \A t, w \in Threads :
        /\ ~(ReadsMaps(t) /\ WritesMaps(w))
        /\ \A id \in DOMAIN registry.evidence : ~(ReadsEntry(t, id) /\ WritesEntry(w, id))

\* The caller is inside a method and its next step is a lock operation that
\* cannot return in this state.
Blocked(t) ==
    \/ threads[t].pc = "lock" /\ ~CanAnnounce(mu)
    \/ threads[t].pc = "lockwait" /\ ~CanLock(mu, t)
    \/ threads[t].pc \in {"gef_rlock", "gaf_rlock"} /\ ~CanRLock(mu)

InMethod(t) == threads[t].pc # "idle"

\* C28: the registry is deadlock-free under every interleaving of
\* GetAllowedFacts with the Register* methods and VerifyEvidence: whenever
\* callers are inside methods of the registry, one of them can take a step.
C28_NoDeadlock ==
    (\E t \in Threads : InMethod(t)) =>
        (\E t \in Threads : InMethod(t) /\ ~Blocked(t))

-----------------------------------------------------------------------------
(* Calls of the RiskClassifier: AssessChange on one change, and             *)
(* AssessBatchChanges on a list of changes.                                 *)

\* Longest before/after text drawn exhaustively from TextAlphabet.
MaxTextLen == 2
\* Longest list handed to AssessBatchChanges.
MaxBatch == 6

TextAlphabet == {"a", " "}

RECURSIVE TextsUpTo(_)
TextsUpTo(n) ==
    IF n = 0 THEN {<<>>}
    ELSE TextsUpTo(n - 1)
         \cup {Append(t, c) : t \in {u \in TextsUpTo(n - 1) : Len(u) = n - 1},
                              c \in TextAlphabet}

\* Texts that reach the keyword check and each band of the change ratio.
SampleTexts ==
    {<<"b", "i", "o">>, <<"a", "b", "i", "o">>, <<"a", " ", "B", "I", "O">>, <<"a", " ", "b", " ", "c", " ", "d">>, <<"a", " ", "b", " ", "c", " ", "d", " ", "e">>, <<"a", " ", "e", " ", "f", " ", "g">>}

Texts == TextsUpTo(MaxTextLen) \cup SampleTexts

RiskFields == {"title", "Material"}
SourceTypes == {"feed", "web", "image", "mixed"}
RiskConfidences == {49, 50, 59, 60, 70, 95}

\* The changes of a batch: low, medium (web), high (very low confidence).
BatchChanges ==
    {[field |-> "title", before |-> <<"a", " ", "b">>, after |-> <<"a", " ", "b", " ", "c">>,
      sourceType |-> "feed", confidence |-> 95],
     [field |-> "title", before |-> <<"a", " ", "b">>, after |-> <<"a", " ", "b", " ", "c">>,
      sourceType |-> "web", confidence |-> 95],
     [field |-> "title", before |-> <<"a", " ", "b">>, after |-> <<"a", " ", "b", " ", "c">>,
      sourceType |-> "feed", confidence |-> 40]}

InitRisk ==
    /\ registry = NewEvidenceRegistry
    /\ nextID = 1
    /\ verifyCalled = {}
    /\ mu = NewRWMutex
    /\ threads = [t \in Threads |-> Idle]
    /\ risk \in {NoCall}
          \cup [pc : {"call"}, field : RiskFields, before : Texts, after : Texts,
                sourceType : SourceTypes, confidence : RiskConfidences,
                a : {NoResult}]
    /\ batch = <<>>
    /\ overall = NoResult
    /\ PipelinesIdle
    /\ ExtIdle

\* AssessChange is called with the arguments chosen and returns.
CallAssessChange ==
    /\ risk.pc = "call"
    /\ risk' = [risk EXCEPT !.pc = "done",
                            !.a = AssessChange(risk.field, risk.before, risk.after,
                                               risk.sourceType, risk.confidence)]
    /\ UNCHANGED <<regVars, concVars, batch, overall, plVars, extVars>>

\* AssessBatchChanges is called with the list so far, or with one more change.
CallAssessBatchChanges ==
    /\ risk = NoCall
    /\ \E changes \in {batch} \cup {Append(batch, c) : c \in BatchChanges} :
          /\ Len(changes) <= MaxBatch
          /\ batch' = changes
          /\ overall' = AssessBatchChanges(changes)
    /\ UNCHANGED <<regVars, concVars, risk, plVars, extVars>>

NextRisk ==
    \/ CallAssessChange
    \/ CallAssessBatchChanges

SpecRisk == InitRisk /\ [][NextRisk]_vars

-----------------------------------------------------------------------------
(* Claims about the RiskClassifier                                          *)

\* C7: for every field, before, after and source type, AssessChange called with
\* confidence < 0.5 returns level "high" and requires_human = true.
C7_RiskFloor ==
    (risk.pc = "done" /\ risk.confidence < 50) =>
        (risk.a.level = "high" /\ risk.a.requiresHuman)

\* A very-low-confidence web change whose change ratio is in the band (0.7, 0.9],
\* where the magnitude check would say medium: the result is still high.
C7_Witness ==
    /\ risk.pc = "done"
    /\ risk.confidence < 50
    /\ risk.sourceType = "web"
    /\ risk.field = "title"
    /\ LET r == calculateChangeRatio(risk.before, risk.after)
       IN  r.num * 10 > 7 * r.den /\ ~(r.num * 10 > 9 * r.den)
    /\ risk.a.level = "high"

\* A RiskAssessment is consistent: high implies requires_human, and a confidence
\* below 0.5 implies requires_human.
Consistent(a) ==
    /\ a.level = "high" => a.requiresHuman
    /\ a.confidence.num < 50 * a.confidence.den => a.requiresHuman

\* C8: every RiskAssessment returned by AssessChange or by AssessBatchChanges
\* satisfies: level high implies requires_human, and confidence < 0.5 implies
\* requires_human.
C8_AssessmentConsistent ==
    /\ risk.pc = "done" => Consistent(risk.a)
    /\ overall # NoResult => Consistent(overall)

\* A batch whose mean confidence is below 0.5 although one of its changes has a
\* confidence of 0.95: it is high and requires a human.
C8_Witness ==
    /\ overall # NoResult
    /\ Len(batch) >= 2
    /\ overall.confidence.num < 50 * overall.confidence.den
    /\ \E i \in DOMAIN batch : batch[i].confidence = 95
    /\ overall.level = "high"
    /\ overall.requiresHuman

\* low < medium < high
LevelRank(level) == CASE level = "low" -> 0 [] level = "medium" -> 1 [] OTHER -> 2

\* From one value of the assessment to the next the level does not go down and
\* requires_human is not reset; the last value is the assessment returned.
NeverLowered(steps, returned) ==
    /\ \A k \in 1..(Len(steps) - 1) :
          /\ LevelRank(steps[k].level) <= LevelRank(steps[k + 1].level)
          /\ steps[k].requiresHuman => steps[k + 1].requiresHuman
    /\ steps[Len(steps)] = returned

\* C24: inside one call of AssessChange the level never decreases from one check
\* to the next (low < medium < high) and requires_human, once true, is never
\* reset: a check that could lower a high assessment to medium is guarded by
\* Level != "high".
C24_LevelNeverDecreases ==
    risk.pc = "done" =>
        NeverLowered(AssessTrace(risk.field, risk.before, risk.after,
                                 risk.sourceType, risk.confidence), risk.a)

\* A web-sourced change of a high-risk field with a confidence below 0.7 and a
\* change ratio above 0.7: the web, low-confidence and significant-change checks
\* all apply to an assessment that is already high, and it stays high.
C24_Witness ==
    /\ risk.pc = "done"
    /\ risk.field = "Material"
    /\ risk.sourceType = "web"
    /\ risk.confidence = 59
    /\ RatioGT(calculateChangeRatio(risk.before, risk.after), SignificantChange)
    /\ ~RatioGT(calculateChangeRatio(risk.before, risk.after), NearRewrite)
    /\ risk.a.level = "high"
    /\ risk.a.requiresHuman

-----------------------------------------------------------------------------
(* pipeline.Pipeline.Run called by two goroutines on one Pipeline, each for *)
(* its own record.  The steps are the statements of Run that read or write  *)
(* p.registry; the result lists, which are local to a call, are those of    *)
(* SpecPipeline below.                                                      *)

Runs == {"runA", "runB"}

\* product.RawData: whether it parses as a field map, and the fields in the
\* order the map is ranged over.  A value is a JSON string or null.
RecordA ==
    [id |-> "pA", parses |-> TRUE,
     fields |-> <<[field |-> "title", kind |-> "string", value |-> <<"a", " ", "b">>],
                  [field |-> "gtin", kind |-> "null", value |-> <<>>],
                  [field |-> "image_link", kind |-> "string", value |-> <<"i">>]>>]
RecordB ==
    [id |-> "pB", parses |-> TRUE,
     fields |-> <<[field |-> "Titre", kind |-> "string", value |-> <<"c", " ", "d">>],
                  [field |-> "brand", kind |-> "string", value |-> <<>>]>>]
Malformed == [id |-> "pA", parses |-> FALSE, fields |-> <<>>]

\* The record a goroutine passes to Run.
RecordsOf(r) == IF r = "runA" THEN {RecordA, Malformed} ELSE {RecordB}

HasString(product, key) ==
    \E i \in DOMAIN product.fields :
        product.fields[i].field = key /\ product.fields[i].kind = "string"

StringOf(product, key) ==
    product.fields[CHOOSE i \in DOMAIN product.fields :
                       product.fields[i].field = key].value

\* extractImageURL: the first of the keys that holds a non-empty string.
ImageKeys == <<"image_link", "image link", "imageLink", "image", "Image">>

RECURSIVE FirstNonEmpty(_, _)
FirstNonEmpty(product, keys) ==
    IF keys = <<>> THEN <<>>
    ELSE IF HasString(product, Head(keys)) /\ StringOf(product, Head(keys)) # <<>>
         THEN StringOf(product, Head(keys))
         ELSE FirstNonEmpty(product, Tail(keys))

extractImageURL(product) == FirstNonEmpty(product, ImageKeys)

\* extractField: the exact key, then the common variations of the field.
variations ==
    [title |-> <<"title", "titre", "Titre", "Title">>,
     description |-> <<"description", "Description">>,
     brand |-> <<"brand", "marque", "Brand", "Marque">>,
     gtin |-> <<"gtin", "GTIN", "ean", "EAN", "upc", "UPC">>,
     link |-> <<"link", "url", "URL", "Link">>]

RECURSIVE FirstString(_, _)
FirstString(product, keys) ==
    IF keys = <<>> THEN <<>>
    ELSE IF HasString(product, Head(keys)) THEN StringOf(product, Head(keys))
         ELSE FirstString(product, Tail(keys))

extractField(product, field) ==
    IF HasString(product, field) THEN StringOf(product, field)
    ELSE IF field \in DOMAIN variations THEN FirstString(product, variations[field])
         ELSE <<>>

\* A nil output of an agent: the call failed.
NoOutput == [nil |-> TRUE]

\* The ImageEvidenceOutput and the RetrievalOutput the oracle can return.
ImageOutputs ==
    {NoOutput, [Observations |-> <<>>],
     [Observations |-> <<[attribute |-> "title", value |-> <<"s">>,
                          confidence |-> 95],
                         [attribute |-> "color", value |-> <<"s">>,
                          confidence |-> 84]>>]}
RetrievalOutputs ==
    {NoOutput, [Facts |-> <<>>],
     [Facts |-> <<[field |-> "color", value |-> <<"w">>, confidence |-> 95]>>]}

\* The loop "for _, obs := range imageEvidence.Observations" on one registry.
RECURSIVE RegisterObservations(_, _, _, _)
RegisterObservations(r, id, product, observations) ==
    IF observations = <<>> THEN [registry |-> r, nextID |-> id]
    ELSE RegisterObservations(
            RegisterFromImage(r, id, product.id, Head(observations).attribute,
                              Head(observations).value, extractImageURL(product), "seen",
                              Head(observations).confidence, id),
            id + 1, product, Tail(observations))

\* The loop "for _, fact := range retrievedFacts.Facts" on one registry.
RECURSIVE RegisterFacts(_, _, _, _)
RegisterFacts(r, id, product, facts) ==
    IF facts = <<>> THEN [registry |-> r, nextID |-> id]
    ELSE RegisterFacts(
            RegisterFromWeb(r, id, product.id, Head(facts).field, Head(facts).value,
                            "url", "snippet", Head(facts).confidence, id),
            id + 1, product, Tail(facts))

\* EvidenceRegistry.ToJSON: the entries of the registry.
ToJSON(r) == {r.evidence[id] : id \in DOMAIN r.evidence}

NoTrail == {}

InitPipelineConcurrent ==
    /\ registry = NewEvidenceRegistry
    /\ nextID = 1
    /\ verifyCalled = {}
    /\ mu = NewRWMutex
    /\ threads = [t \in Threads |-> Idle]
    /\ RiskIdle
    /\ ExtIdle
    /\ NewFastPipeline
    /\ heap = <<NewEvidenceRegistry>>
    /\ pRegistry = 1
    /\ pipeRun = NoRun
    /\ runs \in [Runs -> [pc : {"start"}, product : UNION {RecordsOf(r) : r \in Runs},
                          used : {{}}, allowedFacts : {{}}, trail : {NoTrail},
                          err : {FALSE}]]
    /\ \A r \in Runs : runs[r].product \in RecordsOf(r)

\* p.registry = tools.NewEvidenceRegistry()
RunNewRegistry(r) ==
    /\ runs[r].pc = "start"
    /\ heap' = Append(heap, NewEvidenceRegistry)
    /\ pRegistry' = Len(heap) + 1
    /\ runs' = [runs EXCEPT ![r].pc = "load"]
    /\ UNCHANGED <<regVars, concVars, riskVars, fastRun, pipeRun, extVars>>

\* p.registry.LoadFromFeedData(product.ID, product.RawData): on the registry the
\* field holds now; "return nil, err" when the data does not parse.
RunLoadFromFeedData(r) ==
    /\ runs[r].pc = "load"
    /\ IF runs[r].product.parses
       THEN LET loaded == LoadFields(heap[pRegistry], nextID, runs[r].product.id,
                                     runs[r].product.fields)
            IN  /\ heap' = [heap EXCEPT ![pRegistry] = loaded.registry]
                /\ nextID' = loaded.nextID
                /\ runs' = [runs EXCEPT ![r].pc = "audit", ![r].used = {pRegistry}]
       ELSE /\ runs' = [runs EXCEPT ![r].pc = "returned", ![r].err = TRUE]
            /\ UNCHANGED <<heap, nextID>>
    /\ UNCHANGED <<registry, verifyCalled, concVars, riskVars, pRegistry, fastRun, pipeRun, extVars>>

\* Stage 2: auditResult == nil returns the result; otherwise the run goes on.
RunAudit(r) ==
    /\ runs[r].pc = "audit"
    /\ \E auditFails \in BOOLEAN :
          runs' = [runs EXCEPT ![r].pc = IF auditFails THEN "returned" ELSE "image"]
    /\ UNCHANGED <<regVars, concVars, riskVars, heap, pRegistry, fastRun, pipeRun, extVars>>

\* Stage 3: the observations are registered in the registry the field holds.
RunImageEvidence(r) ==
    /\ runs[r].pc = "image"
    /\ \E imageEvidence \in IF extractImageURL(runs[r].product) = <<>> THEN {NoOutput}
                             ELSE ImageOutputs :
          LET done == RegisterObservations(heap[pRegistry], nextID, runs[r].product,
                                           IF imageEvidence = NoOutput THEN <<>>
                                           ELSE imageEvidence.Observations)
          IN  /\ heap' = [heap EXCEPT ![pRegistry] = done.registry]
              /\ nextID' = done.nextID
    /\ runs' = [runs EXCEPT ![r].pc = "retrieval", ![r].used = @ \cup {pRegistry}]
    /\ UNCHANGED <<registry, verifyCalled, concVars, riskVars, pRegistry, fastRun, pipeRun, extVars>>

\* Stage 4: the facts retrieved are registered in the registry the field holds.
RunRetrieval(r) ==
    /\ runs[r].pc = "retrieval"
    /\ \E retrievedFacts \in RetrievalOutputs :
          LET done == RegisterFacts(heap[pRegistry], nextID, runs[r].product,
                                    IF retrievedFacts = NoOutput THEN <<>>
                                    ELSE retrievedFacts.Facts)
          IN  /\ heap' = [heap EXCEPT ![pRegistry] = done.registry]
              /\ nextID' = done.nextID
    /\ runs' = [runs EXCEPT ![r].pc = "plan", ![r].used = @ \cup {pRegistry}]
    /\ UNCHANGED <<registry, verifyCalled, concVars, riskVars, pRegistry, fastRun, pipeRun, extVars>>

\* Stage 5: plan == nil returns the result; otherwise the actions are executed.
RunPlan(r) ==
    /\ runs[r].pc = "plan"
    /\ \E planFails \in BOOLEAN :
          runs' = [runs EXCEPT ![r].pc = IF planFails THEN "returned" ELSE "execute"]
    /\ UNCHANGED <<regVars, concVars, riskVars, heap, pRegistry, fastRun, pipeRun, extVars>>

\* Stage 6, "Build allowed facts for this action": p.registry.GetBestEvidence of
\* the action's allowed fact, here the field title.
RunGetBestEvidence(r) ==
    /\ runs[r].pc = "execute"
    /\ LET ev == GetBestEvidence(heap[pRegistry], "title")
       IN  runs' = [runs EXCEPT ![r].pc = "summary", ![r].used = @ \cup {pRegistry},
                                ![r].allowedFacts =
                                    IF ev = Nil THEN {} ELSE {heap[pRegistry].evidence[ev]}]
    /\ UNCHANGED <<regVars, concVars, riskVars, heap, pRegistry, fastRun, pipeRun, extVars>>

\* result.EvidenceTrail, _ = p.registry.ToJSON(); return result, nil
RunToJSON(r) ==
    /\ runs[r].pc = "summary"
    /\ runs' = [runs EXCEPT ![r].pc = "returned", ![r].used = @ \cup {pRegistry},
                             ![r].trail = ToJSON(heap[pRegistry])]
    /\ UNCHANGED <<regVars, concVars, riskVars, heap, pRegistry, fastRun, pipeRun, extVars>>

NextPipelineConcurrent ==
    \E r \in Runs :
        \/ RunNewRegistry(r)
        \/ RunLoadFromFeedData(r)
        \/ RunAudit(r)
        \/ RunImageEvidence(r)
        \/ RunRetrieval(r)
        \/ RunPlan(r)
        \/ RunGetBestEvidence(r)
        \/ RunToJSON(r)

SpecPipelineConcurrent == InitPipelineConcurrent /\ [][NextPipelineConcurrent]_vars

\* C6: under every interleaving of two Run calls for different records, every
\* registry a run has loaded, written to, read or exported holds evidence of its
\* own record only, and so do the allowed facts it read and the evidence trail
\* it returns.
C6_RunsDoNotShareState ==
    \A r \in Runs :
        /\ \A k \in runs[r].used :
              \A ev \in ToJSON(heap[k]) : ev.productID = runs[r].product.id
        /\ \A ev \in runs[r].allowedFacts : ev.productID = runs[r].product.id
        /\ \A ev \in runs[r].trail : ev.productID = runs[r].product.id

-----------------------------------------------------------------------------
(* pipeline.FastPipeline.Run and pipeline.Pipeline.Run, one call at a time: *)
(* the PipelineResult a call builds from what the oracle returns.           *)

\* Largest number of proposals in a FastPipelineOutput, and of actions in a plan.
MaxProposals == 2

\* Confidence below which validateProposalDeterministic rejects.
MinConfidence == 30

AB == <<"a", " ", "b">>
ABC == <<"a", " ", "b", " ", "c">>
ABCD == <<"a", " ", "b", " ", "c", " ", "d">>
ABio == <<"a", " ", "b", "i", "o">>
HttpA == <<"h", "t", "t", "p", ":", "/", "/", "a">>
MustBeA == <<"m", "u", "s", "t", " ", "b", "e", " ", "a">>

\* The FastProposals the oracle can return: sound at three confidences, on a
\* high-risk field, with a new high-risk keyword, the ones the deterministic
\* validation is written for, and a link that is not a URL, a link that is one,
\* a price without a digit and a placeholder text.
FastProposals ==
    {[field |-> "title", before |-> AB, after |-> ABC, confidence |-> 95],
     [field |-> "title", before |-> AB, after |-> ABC, confidence |-> 55],
     [field |-> "title", before |-> AB, after |-> ABC, confidence |-> 40],
     [field |-> "material", before |-> AB, after |-> ABC, confidence |-> 95],
     [field |-> "description", before |-> AB, after |-> ABio, confidence |-> 95],
     [field |-> "title", before |-> AB, after |-> AB, confidence |-> 95],
     [field |-> "title", before |-> AB, after |-> <<>>, confidence |-> 95],
     [field |-> "title", before |-> ABCD, after |-> <<"a">>, confidence |-> 95],
     [field |-> "title", before |-> AB, after |-> ABC, confidence |-> 29],
     [field |-> "link", before |-> AB, after |-> ABC, confidence |-> 95],
     [field |-> "link", before |-> AB, after |-> HttpA, confidence |-> 95],
     [field |-> "price", before |-> AB, after |-> ABC, confidence |-> 95],
     [field |-> "title", before |-> AB, after |-> MustBeA, confidence |-> 95]}

RECURSIVE SeqsUpTo(_, _)
SeqsUpTo(S, n) ==
    IF n = 0 THEN {<<>>}
    ELSE SeqsUpTo(S, n - 1)
         \cup {Append(q, x) : q \in {u \in SeqsUpTo(S, n - 1) : Len(u) = n - 1}, x \in S}

\* Analysis.Score of the oracle's output, in hundredths.
Scores == {50, 98}

\* The FastPipelineOutput of runCombinedOptimization.
FastOutputs == [Proposals : SeqsUpTo(FastProposals, MaxProposals), Score : Scores]

validateProposalDeterministic(prop) ==
    IF prop.after = prop.before THEN FALSE
    ELSE IF prop.after = <<>> THEN FALSE
    ELSE IF Len(prop.after) < Len(prop.before) \div 2 THEN FALSE
    ELSE IF prop.confidence < MinConfidence THEN FALSE
    ELSE TRUE

\* result := &PipelineResult{...}: empty lists, no evidence trail, no summary.
NoSummary == [TotalStages |-> 0]
NewPipelineResult(productID) ==
    [ProductID |-> productID, Stages |-> <<>>, Proposals |-> <<>>, Rejections |-> <<>>,
     HumanRequired |-> <<>>, EvidenceTrail |-> {}, Summary |-> NoSummary]

\* ScoreAfter: the score plus 0.05 per proposal, at most 1.0.
ScoreAfter(score, proposals) == Min(score + Len(proposals) * 5, FullConfidence)

\* The body of "for _, prop := range output.Proposals" of FastPipeline.Run.
FastControl(result, prop) ==
    IF ~validateProposalDeterministic(prop)
    THEN [result EXCEPT !.Rejections =
             Append(@, [Field |-> prop.field,
                        Reason |-> "Failed deterministic validation",
                        Stage |-> "controller"])]
    ELSE LET riskAssessment == AssessChange(prop.field, prop.before, prop.after,
                                            "mixed", prop.confidence)
             proposal == [Field |-> prop.field, Before |-> prop.before,
                          After |-> prop.after, Risk |-> riskAssessment,
                          Verified |-> TRUE, Confidence |-> prop.confidence]
         IN  [result EXCEPT
                 !.Proposals = Append(@, proposal),
                 !.HumanRequired =
                     IF riskAssessment.level = "high"
                     THEN Append(@, [Field |-> prop.field, Reason |-> "High risk change",
                                     RiskLevel |-> "high"])
                     ELSE @]

\* "Build summary" of FastPipeline.Run.
FastSummary(result, score) ==
    [result EXCEPT !.Summary =
        [TotalStages |-> 3,
         ProposalsCreated |-> Len(result.Proposals),
         ProposalsApproved |-> Len(result.Proposals),
         ProposalsRejected |-> Len(result.Rejections),
         HumanReviewNeeded |-> Len(result.HumanRequired),
         ScoreBefore |-> score,
         ScoreAfter |-> ScoreAfter(score, result.Proposals)]]

InitPipeline ==
    /\ registry = NewEvidenceRegistry
    /\ nextID = 1
    /\ verifyCalled = {}
    /\ mu = NewRWMutex
    /\ threads = [t \in Threads |-> Idle]
    /\ RiskIdle
    /\ ExtIdle
    /\ PipelinesIdle

\* The calls a context that is done lets succeed: none.
Outcomes(outputs) == IF ctxDone THEN {NoOutput} ELSE {NoOutput} \cup outputs

\* FastPipeline.Run up to the combined call: the validate stage, the image
\* analysis when the record has an image URL (its error is kept in imageErr and
\* read only to leave the context empty), and runCombinedOptimization, which
\* fails ("OnError", "return result, err") or returns an output.
FastRunOptimize ==
    /\ fastRun = NoRun
    /\ pipeRun = NoRun
    /\ session = NoSession
    /\ \E product \in {RecordA, RecordB, Malformed} :
       \E imageErr \in IF extractImageURL(product) = <<>> THEN {FALSE} ELSE BOOLEAN,
          output \in Outcomes(FastOutputs) :
          LET result == [NewPipelineResult(product.id) EXCEPT !.Stages = <<"validate">>]
              imageCalled == extractImageURL(product) # <<>>
              calls == IF imageCalled THEN <<"image_evidence", "optimize">>
                       ELSE <<"optimize">>
              failed == (IF imageErr THEN <<"image_evidence">> ELSE <<>>)
                        \o (IF output = NoOutput THEN <<"optimize">> ELSE <<>>)
          IN  fastRun' =
                  IF output = NoOutput
                  THEN [pc |-> "returned", result |-> result, err |-> TRUE,
                        todo |-> <<>>, score |-> 0, calls |-> calls,
                        failed |-> failed, reported |-> <<"optimize">>,
                        imageContext |-> imageCalled /\ ~imageErr,
                        candidates |-> <<>>]
                  ELSE [pc |-> "control",
                        result |-> [result EXCEPT !.Stages = Append(@, "optimize")],
                        err |-> FALSE, todo |-> output.Proposals,
                        score |-> output.Score, calls |-> calls,
                        failed |-> failed, reported |-> <<>>,
                        imageContext |-> imageCalled /\ ~imageErr,
                        candidates |-> output.Proposals]
    /\ UNCHANGED <<regVars, concVars, riskVars, prunVars, pipeRun, extVars>>

\* One iteration of the control loop.
FastRunControl ==
    /\ fastRun.pc = "control"
    /\ fastRun.todo # <<>>
    /\ fastRun' = [fastRun EXCEPT !.result = FastControl(@, Head(fastRun.todo)),
                                  !.todo = Tail(@)]
    /\ UNCHANGED <<regVars, concVars, riskVars, prunVars, pipeRun, extVars>>

\* After the loop: the summary, and "return result, nil".
FastRunSummary ==
    /\ fastRun.pc = "control"
    /\ fastRun.todo = <<>>
    /\ fastRun' = [fastRun EXCEPT !.pc = "returned",
                                  !.result = FastSummary(@, fastRun.score)]
    /\ UNCHANGED <<regVars, concVars, riskVars, prunVars, pipeRun, extVars>>

\* The AuditOutput of the auditor: the missing fields and the readiness score.
AuditOutputs == [Missing : {<<>>, <<"color">>}, AgentReadiness : Scores]

\* The PlannerOutput of the planner: the fields left to a human and the actions.
PlanActions ==
    {[Field |-> "title", AllowedFacts |-> <<"title">>],
     [Field |-> "material", AllowedFacts |-> <<"title", "color">>]}

PlannerOutputs ==
    [RequireHuman : {<<>>, <<[Field |-> "material", Reason |-> "unclear",
                             RiskLevel |-> "high"]>>},
     Actions : SeqsUpTo(PlanActions, MaxProposals)]

\* The WriterOutput of the writer and the ControllerOutput of the controller.
WriterOutputs ==
    {[After |-> ABC, Confidence |-> 95], [After |-> ABC, Confidence |-> 55],
     [After |-> ABC, Confidence |-> 40], [After |-> AB, Confidence |-> 95],
     [After |-> <<>>, Confidence |-> 95], [After |-> ABio, Confidence |-> 95]}

ControllerOutputs ==
    {[Approved |-> FALSE, Rejections |-> <<>>, FactsVerified |-> FALSE,
      OverallConfidence |-> 0],
     [Approved |-> FALSE,
      Rejections |-> <<[Reason |-> "unsupported claim", Evidence |-> "none"]>>,
      FactsVerified |-> FALSE, OverallConfidence |-> 0],
     [Approved |-> TRUE, Rejections |-> <<>>, FactsVerified |-> TRUE,
      OverallConfidence |-> 90]}

\* "for _, hr := range plan.RequireHuman": one HumanReviewRequest per entry.
RECURSIVE HumanRequests(_)
HumanRequests(requireHuman) ==
    IF requireHuman = <<>> THEN <<>>
    ELSE <<[Field |-> Head(requireHuman).Field, Reason |-> Head(requireHuman).Reason,
            RiskLevel |-> Head(requireHuman).RiskLevel]>>
         \o HumanRequests(Tail(requireHuman))

\* "Skip if requires human"
PlanRequiresHuman(plan, action) ==
    \E i \in DOMAIN plan.RequireHuman : plan.RequireHuman[i].Field = action.Field

\* "Build allowed facts for this action": the value of the best evidence of each
\* field named, then the current value of the field when it is not empty.
RECURSIVE BestFacts(_, _, _)
BestFacts(r, fieldNames, allowedFacts) ==
    IF fieldNames = <<>> THEN allowedFacts
    ELSE BestFacts(r, Tail(fieldNames),
            IF GetBestEvidence(r, Head(fieldNames)) = Nil THEN allowedFacts
            ELSE MapPut(allowedFacts, <<"fact", Head(fieldNames)>>,
                        r.evidence[GetBestEvidence(r, Head(fieldNames))].value))

\* The value of the first evidence of each field named, verified or not.
RECURSIVE FirstFacts(_, _, _)
FirstFacts(r, fieldNames, allowedFacts) ==
    IF fieldNames = <<>> THEN allowedFacts
    ELSE FirstFacts(r, Tail(fieldNames),
            IF ByField(r, Head(fieldNames)) = <<>> THEN allowedFacts
            ELSE MapPut(allowedFacts, <<"fact", Head(fieldNames)>>,
                        r.evidence[Head(ByField(r, Head(fieldNames)))].value))

AllowedFactsOfAnyEvidence(r, action, currentValue) ==
    IF currentValue = <<>> THEN FirstFacts(r, action.AllowedFacts, <<>>)
    ELSE MapPut(FirstFacts(r, action.AllowedFacts, <<>>),
                <<"current", action.Field>>, currentValue)

AllowedFacts(r, action, currentValue) ==
    IF currentValue = <<>> THEN BestFacts(r, action.AllowedFacts, <<>>)
    ELSE MapPut(BestFacts(r, action.AllowedFacts, <<>>),
                <<"current", action.Field>>, currentValue)

\* "Handle rejection": one Rejection per rejection of the controller.
RECURSIVE ControllerRejections(_, _)
ControllerRejections(field, rejections) ==
    IF rejections = <<>> THEN <<>>
    ELSE <<[Field |-> field, Reason |-> Head(rejections).Reason, Stage |-> "controller"]>>
         \o ControllerRejections(field, Tail(rejections))

\* The body of "for _, action := range plan.Actions" after the skip, for the
\* outputs of the writer and of the controller (NoOutput: the call failed).
Execute(result, action, currentValue, writerOutput, controlOutput) ==
    IF writerOutput = NoOutput
    THEN [result EXCEPT !.Rejections =
             Append(@, [Field |-> action.Field, Reason |-> "error", Stage |-> "writer"])]
    ELSE IF controlOutput = NoOutput
    THEN [result EXCEPT !.Rejections =
             Append(@, [Field |-> action.Field, Reason |-> "error",
                        Stage |-> "controller"])]
    ELSE IF ~controlOutput.Approved
    THEN [result EXCEPT !.Rejections =
             @ \o ControllerRejections(action.Field, controlOutput.Rejections)]
    ELSE LET riskAssessment == AssessChange(action.Field, currentValue,
                                            writerOutput.After, "mixed",
                                            writerOutput.Confidence)
             proposal == [Field |-> action.Field, Before |-> currentValue,
                          After |-> writerOutput.After, Risk |-> riskAssessment,
                          Verified |-> controlOutput.FactsVerified,
                          Confidence |-> controlOutput.OverallConfidence]
         IN  [result EXCEPT
                 !.Proposals = Append(@, proposal),
                 !.HumanRequired =
                     IF ShouldRequireHumanReview(riskAssessment)
                     THEN Append(@, [Field |-> action.Field,
                                     Reason |-> "Risk assessment",
                                     RiskLevel |-> riskAssessment.level])
                     ELSE @]

\* "Build summary" of Pipeline.Run.
PipelineSummary(result, r, score) ==
    [result EXCEPT
        !.EvidenceTrail = ToJSON(r),
        !.Summary =
            [TotalStages |-> Len(result.Stages),
             ProposalsCreated |-> Len(result.Proposals),
             ProposalsApproved |-> Len(result.Proposals),
             ProposalsRejected |-> Len(result.Rejections),
             HumanReviewNeeded |-> Len(result.HumanRequired),
             ScoreBefore |-> score,
             ScoreAfter |-> ScoreAfter(score, result.Proposals)]]

\* Pipeline.Run up to stage 1: the result, a new registry in p.registry loaded
\* from the feed data ("return nil, err" when it does not parse), the validate
\* stage.
PipelineRunStart ==
    /\ fastRun = NoRun
    /\ pipeRun = NoRun
    /\ session = NoSession
    /\ \E product \in {RecordA, RecordB, Malformed} :
          IF product.parses
          THEN LET loaded == LoadFields(NewEvidenceRegistry, nextID, product.id,
                                        product.fields)
               IN  /\ heap' = Append(heap, loaded.registry)
                   /\ nextID' = loaded.nextID
                   /\ pipeRun' = [pc |-> "audit", product |-> product,
                                  result |-> [NewPipelineResult(product.id)
                                                 EXCEPT !.Stages = <<"validate">>],
                                  resultNil |-> FALSE, err |-> FALSE,
                                  audit |-> NoOutput, plan |-> NoOutput,
                                  todo |-> <<>>, allowedFacts |-> <<>>,
                                  calls |-> <<>>, failed |-> <<>>,
                                  reported |-> <<>>]
          ELSE /\ heap' = Append(heap, NewEvidenceRegistry)
               /\ nextID' = nextID
               /\ pipeRun' = [pc |-> "returned", product |-> product,
                              result |-> NewPipelineResult(product.id),
                              resultNil |-> TRUE, err |-> TRUE,
                              audit |-> NoOutput, plan |-> NoOutput,
                              todo |-> <<>>, allowedFacts |-> <<>>,
                              calls |-> <<>>, failed |-> <<>>,
                              reported |-> <<>>]
    /\ pRegistry' = Len(heap) + 1
    /\ UNCHANGED <<registry, verifyCalled, concVars, riskVars, runs, fastRun, extVars>>

\* runStage: the call of the stage; its StageResult is appended to the result,
\* with Error set and OnError called when the call failed.
runStage(run, name, output) ==
    [run EXCEPT !.calls = Append(@, name),
                !.failed = IF output = NoOutput THEN Append(@, name) ELSE @,
                !.reported = IF output = NoOutput THEN Append(@, name) ELSE @,
                !.result.Stages = Append(@, name)]

\* Stage 2: the audit; "if auditResult == nil { return result, nil }".
PipelineAudit ==
    /\ pipeRun.pc = "audit"
    /\ \E auditResult \in Outcomes(AuditOutputs) :
          pipeRun' = [runStage(pipeRun, "audit", auditResult) EXCEPT
                         !.pc = IF auditResult = NoOutput THEN "returned" ELSE "image",
                         !.audit = auditResult]
    /\ UNCHANGED <<regVars, concVars, riskVars, prunVars, fastRun, extVars>>

\* Stage 3: when the record has an image URL, the image evidence stage and the
\* registration of its observations.
PipelineImageEvidence ==
    /\ pipeRun.pc = "image"
    /\ IF extractImageURL(pipeRun.product) = <<>>
       THEN /\ pipeRun' = [pipeRun EXCEPT !.pc = "retrieval"]
            /\ UNCHANGED <<heap, nextID>>
       ELSE \E imageEvidence \in Outcomes(ImageOutputs) :
               LET done == RegisterObservations(heap[pRegistry], nextID, pipeRun.product,
                                                IF imageEvidence = NoOutput THEN <<>>
                                                ELSE imageEvidence.Observations)
               IN  /\ heap' = [heap EXCEPT ![pRegistry] = done.registry]
                   /\ nextID' = done.nextID
                   /\ pipeRun' = [runStage(pipeRun, "image_evidence", imageEvidence)
                                      EXCEPT !.pc = "retrieval"]
    /\ UNCHANGED <<registry, verifyCalled, concVars, riskVars, pRegistry, runs, fastRun, extVars>>

\* Stage 4: when the audit reports missing fields, the retrieval stage and the
\* registration of its facts.
PipelineRetrieval ==
    /\ pipeRun.pc = "retrieval"
    /\ IF pipeRun.audit.Missing = <<>>
       THEN /\ pipeRun' = [pipeRun EXCEPT !.pc = "plan"]
            /\ UNCHANGED <<heap, nextID>>
       ELSE \E retrievedFacts \in Outcomes(RetrievalOutputs) :
               LET done == RegisterFacts(heap[pRegistry], nextID, pipeRun.product,
                                         IF retrievedFacts = NoOutput THEN <<>>
                                         ELSE retrievedFacts.Facts)
               IN  /\ heap' = [heap EXCEPT ![pRegistry] = done.registry]
                   /\ nextID' = done.nextID
                   /\ pipeRun' = [runStage(pipeRun, "retrieval", retrievedFacts)
                                      EXCEPT !.pc = "plan"]
    /\ UNCHANGED <<registry, verifyCalled, concVars, riskVars, pRegistry, runs, fastRun, extVars>>

\* Stage 5: the plan; "if plan == nil { return result, nil }"; the fields the
\* plan leaves to a human go to HumanRequired.
PipelinePlan ==
    /\ pipeRun.pc = "plan"
    /\ \E plan \in Outcomes(PlannerOutputs) :
          pipeRun' =
              IF plan = NoOutput
              THEN [runStage(pipeRun, "plan", plan) EXCEPT !.pc = "returned"]
              ELSE [runStage(pipeRun, "plan", plan) EXCEPT
                                   !.pc = "execute", !.plan = plan,
                                   !.todo = plan.Actions,
                                   !.result.HumanRequired =
                                       @ \o HumanRequests(plan.RequireHuman)]
    /\ UNCHANGED <<regVars, concVars, riskVars, prunVars, fastRun, extVars>>

\* Stage 6, one action of the plan: skipped when its field is left to a human,
\* else written, controlled and assessed.
PipelineExecute ==
    /\ pipeRun.pc = "execute"
    /\ pipeRun.todo # <<>>
    /\ LET action == Head(pipeRun.todo)
           currentValue == extractField(pipeRun.product, action.Field)
       IN  IF PlanRequiresHuman(pipeRun.plan, action)
           THEN pipeRun' = [pipeRun EXCEPT !.todo = Tail(@)]
           ELSE \E writerOutput \in Outcomes(WriterOutputs),
                   controlOutput \in Outcomes(ControllerOutputs) :
                   pipeRun' = [pipeRun EXCEPT
                       !.todo = Tail(@),
                       !.calls = IF writerOutput = NoOutput THEN Append(@, "writer")
                                 ELSE @ \o <<"writer", "controller">>,
                       !.failed = IF writerOutput = NoOutput THEN Append(@, "writer")
                                  ELSE IF controlOutput = NoOutput
                                  THEN Append(@, "controller") ELSE @,
                       !.allowedFacts = AllowedFacts(heap[pRegistry], action, currentValue),
                       !.result = Execute(@, action, currentValue, writerOutput,
                                          controlOutput)]
    /\ UNCHANGED <<regVars, concVars, riskVars, prunVars, fastRun, extVars>>

\* After the loop: the evidence trail, the summary, and "return result, nil".
PipelineRunSummary ==
    /\ pipeRun.pc = "execute"
    /\ pipeRun.todo = <<>>
    /\ pipeRun' = [pipeRun EXCEPT
                      !.pc = "returned",
                      !.result = PipelineSummary(@, heap[pRegistry],
                                                 pipeRun.audit.AgentReadiness)]
    /\ UNCHANGED <<regVars, concVars, riskVars, prunVars, fastRun, extVars>>

-----------------------------------------------------------------------------
(* agent.Agent.RunWithGroup: runFastMode for the group "all", runFocusedMode *)
(* for the other groups.                                                     *)

\* The spelling of the field names of the model.
FieldSpelling ==
    [title |-> <<"t", "i", "t", "l", "e">>, material |-> <<"m", "a", "t", "e", "r", "i", "a", "l">>, description |-> <<"d", "e", "s", "c", "r", "i", "p", "t", "i", "o", "n">>,
     link |-> <<"l", "i", "n", "k">>, price |-> <<"p", "r", "i", "c", "e">>]

invalidPatterns == <<
    <<"c", "o", "r", "r", "e", "c", "t", " ", "p", "r", "i", "c", "e">>,
    <<"v", "a", "l", "i", "d", " ", "p", "r", "o", "d", "u", "c", "t">>,
    <<"s", "h", "o", "u", "l", "d", " ", "b", "e">>,
    <<"n", "e", "e", "d", "s", " ", "t", "o", " ", "b", "e">>,
    <<"m", "u", "s", "t", " ", "b", "e">>,
    <<"f", "r", "o", "m", " ", "l", "a", "n", "d", "i", "n", "g", " ", "p", "a", "g", "e">>,
    <<"w", "i", "t", "h", "o", "u", "t", " ", "w", "a", "t", "e", "r", "m", "a", "r", "k", "s">>,
    <<"r", "e", "c", "o", "m", "m", "e", "n", "d", "e", "d", " ", "a", "c", "t", "i", "o", "n">>,
    <<"n", "e", "e", "d", "s", " ", "u", "p", "d", "a", "t", "e">>,
    <<"t", "o", " ", "b", "e", " ", "f", "i", "x", "e", "d">>,
    <<"r", "e", "q", "u", "i", "r", "e", "s", " ", "r", "e", "v", "i", "e", "w">>,
    <<"h", "u", "m", "a", "n", " ", "r", "e", "v", "i", "e", "w">>,
    <<"m", "a", "n", "u", "a", "l", " ", "c", "h", "e", "c", "k">>,
    <<"v", "e", "r", "i", "f", "y", " ", "t", "h", "i", "s">>,
    <<"c", "h", "e", "c", "k", " ", "t", "h", "e">>
>>

urlFields == <<<<"l", "i", "n", "k">>, <<"i", "m", "a", "g", "e", "_", "l", "i", "n", "k">>, <<"i", "m", "a", "g", "e">>, <<"u", "r", "l">>, <<"a", "d", "d", "i", "t", "i", "o", "n", "a", "l", "_", "i", "m", "a", "g", "e", "_", "l", "i", "n", "k">>>>
priceFields == <<<<"p", "r", "i", "c", "e">>, <<"s", "a", "l", "e", "_", "p", "r", "i", "c", "e">>>>

Digits == {"0", "1", "2", "3", "4", "5", "6", "7", "8", "9"}

\* "URL fields should contain URLs": the field name holds one of urlFields.
IsURLField(field) ==
    \E i \in DOMAIN urlFields : Contains(ToLower(FieldSpelling[field]), urlFields[i])

IsURL(value) == HasPrefix(value, <<"h", "t", "t", "p", ":", "/", "/">>) \/ HasPrefix(value, <<"h", "t", "t", "p", "s", ":", "/", "/">>)

\* "Price fields should contain numbers"
IsPriceField(field) ==
    \E i \in DOMAIN priceFields : ToLower(FieldSpelling[field]) = priceFields[i]

HasDigit(value) == \E i \in DOMAIN value : value[i] \in Digits

\* isDescriptionNotValue: a placeholder text, a URL field whose value is not an
\* http:// or https:// URL, a price field whose value holds no digit.
isDescriptionNotValue(value, field) ==
    \/ \E i \in DOMAIN invalidPatterns : Contains(ToLower(value), invalidPatterns[i])
    \/ IsURLField(field) /\ ~IsURL(value)
    \/ IsPriceField(field) /\ ~HasDigit(value)

\* "Skip invalid proposals" of runFastMode and runFocusedMode.
AgentSkips(p) ==
    \/ p.after = <<>> \/ p.after = p.before
    \/ p.confidence < MinConfidence
    \/ isDescriptionNotValue(p.after, p.field)

\* "Convert to models.Proposal": the proposals kept, in the oracle's order.
RECURSIVE ConvertProposals(_)
ConvertProposals(output) ==
    IF output = <<>> THEN <<>>
    ELSE IF AgentSkips(Head(output)) THEN ConvertProposals(Tail(output))
    ELSE <<[Field |-> Head(output).field, BeforeValue |-> Head(output).before,
            AfterValue |-> Head(output).after, Confidence |-> Head(output).confidence,
            Status |-> "proposed"]>>
         \o ConvertProposals(Tail(output))

Groups == {"all", "title_optimization", "required_attributes"}

\* The image URL of the record (empty: none) and whether it has searchable
\* product info, as extractImageURL and runWebSearch find them; whether the
\* search API key is configured.
AgentInputs == [imageURL : {<<>>, HttpA}, searchable : BOOLEAN, apiKey : BOOLEAN]

ImageGroups == {"all", "recommended_attributes", "image_analysis", "title_optimization"}
WebGroups == {"all", "required_attributes", "recommended_attributes"}

\* RunWithGroup: the Session, status running.
AgentRunWithGroup ==
    /\ fastRun = NoRun /\ pipeRun = NoRun /\ session = NoSession
    /\ \E input \in AgentInputs, group \in Groups :
          session' = [pc |-> "image", group |-> group, input |-> input,
                      Status |-> "running", Proposals |-> <<>>, Traces |-> 0,
                      err |-> FALSE, log |-> <<>>, calls |-> <<>>,
                      imageContext |-> FALSE, webContext |-> FALSE]
    /\ UNCHANGED <<regVars, concVars, riskVars, plVars, ctxDone, valVars, dbVars, lateVars>>

\* The image analysis call, when the group asks for it and the record has an
\* image URL: a failure is logged and leaves imageContext empty.
AgentImageAnalysis ==
    /\ session.pc = "image"
    /\ IF session.group \notin ImageGroups
       THEN session' = [session EXCEPT !.pc = "web"]
       ELSE IF session.input.imageURL = <<>>
       THEN session' = [session EXCEPT !.pc = "web",
                           !.log = IF session.group = "all"
                                   THEN Append(@, "No image URL") ELSE @]
       ELSE \E failed \in IF ctxDone THEN {TRUE} ELSE BOOLEAN :
               session' = [session EXCEPT
                   !.pc = "web",
                   !.calls = Append(@, "image"),
                   !.imageContext = ~failed,
                   !.log = Append(@, IF failed THEN "Image analysis failed"
                                     ELSE "Image analyzed")]
    /\ UNCHANGED <<regVars, concVars, riskVars, plVars, ctxDone, valVars, dbVars, lateVars>>

\* runWebSearch, when the group asks for it: skipped without an API key or
\* without searchable info; a failed or empty search is logged and gives no
\* web context.
AgentWebSearch ==
    /\ session.pc = "web"
    /\ IF session.group \notin WebGroups
       THEN session' = [session EXCEPT !.pc = "optimize"]
       ELSE IF ~session.input.apiKey
       THEN session' = [session EXCEPT !.pc = "optimize",
                           !.log = Append(@, "Brave API key not configured")]
       ELSE IF ~session.input.searchable
       THEN session' = [session EXCEPT !.pc = "optimize",
                           !.log = Append(@, "No searchable product info")]
       ELSE \E outcome \in IF ctxDone THEN {"Web search failed"}
                           ELSE {"Web search failed", "No web results found",
                                 "Web: Found results"} :
               session' = [session EXCEPT
                   !.pc = "optimize",
                   !.calls = Append(@, "web"),
                   !.webContext = (outcome = "Web: Found results"),
                   !.log = Append(@, outcome)]
    /\ UNCHANGED <<regVars, concVars, riskVars, plVars, ctxDone, valVars, dbVars, lateVars>>

\* The optimization call and the conversion of its proposals: a call error or
\* an unparseable response fails the session, otherwise it is completed.
AgentOptimize ==
    /\ session.pc = "optimize"
    /\ \E output \in {NoOutput}
                     \cup (IF ctxDone THEN {}
                           ELSE [Proposals : SeqsUpTo(FastProposals, MaxProposals)]) :
          session' =
              IF output = NoOutput
              THEN [session EXCEPT !.pc = "returned", !.calls = Append(@, "optimize"),
                                   !.Status = "failed", !.err = TRUE]
              ELSE [session EXCEPT !.pc = "returned", !.calls = Append(@, "optimize"),
                                   !.Proposals = ConvertProposals(output.Proposals),
                                   !.Status = "completed", !.Traces = 1]
    /\ UNCHANGED <<regVars, concVars, riskVars, plVars, ctxDone, valVars, dbVars, lateVars>>

\* The caller cancels the context of the run in progress.
Cancel ==
    /\ ~ctxDone
    /\ \/ fastRun.pc \notin {"none", "returned"}
       \/ pipeRun.pc \notin {"none", "returned"}
       \/ session.pc \notin {"none", "returned"}
    /\ ctxDone' = TRUE
    /\ UNCHANGED <<regVars, concVars, riskVars, plVars, session, valVars, dbVars, lateVars>>

NextPipeline ==
    \/ FastRunOptimize
    \/ FastRunControl
    \/ FastRunSummary
    \/ PipelineRunStart
    \/ PipelineAudit
    \/ PipelineImageEvidence
    \/ PipelineRetrieval
    \/ PipelinePlan
    \/ PipelineExecute
    \/ PipelineRunSummary
    \/ AgentRunWithGroup
    \/ AgentImageAnalysis
    \/ AgentWebSearch
    \/ AgentOptimize
    \/ Cancel

SpecPipeline == InitPipeline /\ [][NextPipeline]_vars

\* One call of Pipeline.Run alone.
NextPipelineRun ==
    \/ PipelineRunStart
    \/ PipelineAudit
    \/ PipelineImageEvidence
    \/ PipelineRetrieval
    \/ PipelinePlan
    \/ PipelineExecute
    \/ PipelineRunSummary

SpecPipelineRun == InitPipeline /\ [][NextPipelineRun]_vars

\* The Proposals and HumanRequired lists of a call's result so far.
ProposalsOf(run) == IF run = NoRun THEN <<>> ELSE run.result.Proposals
HumanRequiredOf(run) == IF run = NoRun THEN <<>> ELSE run.result.HumanRequired

\* A step that adds a proposal adds a human-review entry exactly when
\* ShouldRequireHumanReview of the proposal's risk assessment is true.
GateApplied(old, new) ==
    Len(ProposalsOf(new)) = Len(ProposalsOf(old)) + 1
    => ((Len(HumanRequiredOf(new)) = Len(HumanRequiredOf(old)) + 1)
        <=> ShouldRequireHumanReview(
                ProposalsOf(new)[Len(ProposalsOf(new))].Risk))

\* C9: in Pipeline.Run and in FastPipeline.Run, a proposal that passed screening
\* gets a human-review entry exactly when ShouldRequireHumanReview (requires_human
\* set, or level high, or confidence < 0.6) of its risk assessment is true.
C9_GateIsShouldRequireHumanReview ==
    [][GateApplied(fastRun, fastRun') /\ GateApplied(pipeRun, pipeRun')]_vars

\* A call that ran to its summary and returned its result.
Completed(run) == run.pc = "returned" /\ run.result.Summary # NoSummary

\* The positions of the accepted list whose risk assessment does not require a
\* human.
NotEscalated(proposals) ==
    {i \in DOMAIN proposals : ~proposals[i].Risk.requiresHuman}

\* C10: in the result of a completed run, a candidate whose risk assessment has
\* requires_human = true is in the human-review list, is absent from the accepted
\* proposal list and is not counted in ProposalsApproved.
C10_RequiresHumanNotAccepted ==
    \A run \in {fastRun, pipeRun} :
        Completed(run) =>
            /\ \A i \in DOMAIN run.result.Proposals :
                  run.result.Proposals[i].Risk.requiresHuman
                  => \E j \in DOMAIN run.result.HumanRequired :
                        run.result.HumanRequired[j].Field = run.result.Proposals[i].Field
            /\ NotEscalated(run.result.Proposals) = DOMAIN run.result.Proposals
            /\ run.result.Summary.ProposalsApproved
                   = Cardinality(NotEscalated(run.result.Proposals))

\* A proposal of a pipeline result or of the agent's list changes the value to
\* a non-empty one.
ChangesValue(before, after) == after # <<>> /\ after # before

\* C11: no proposal placed in a run's result (PipelineResult.Proposals of
\* Pipeline.Run and FastPipeline.Run, the proposal list of runFastMode and
\* runFocusedMode) has after equal to before or after equal to the empty string.
C11_NoProposalWithoutChange ==
    /\ \A run \in {fastRun, pipeRun} :
          \A i \in DOMAIN ProposalsOf(run) :
              ChangesValue(ProposalsOf(run)[i].Before, ProposalsOf(run)[i].After)
    /\ session # NoSession =>
          \A i \in DOMAIN session.Proposals :
              ChangesValue(session.Proposals[i].BeforeValue,
                           session.Proposals[i].AfterValue)

\* A candidate the screening is to reject: confidence under 0.3, a URL field
\* whose new value is not a URL, a price field whose new value has no digit.
NotAValue(field, after) ==
    \/ IsURLField(field) /\ ~IsURL(after)
    \/ IsPriceField(field) /\ ~HasDigit(after)

\* C12: in every pipeline variant no candidate with confidence < 0.3, no
\* candidate for a URL field whose after is not an http:// or https:// URL and
\* no candidate for a price field whose after has no digit is in the accepted
\* list (FastPipeline.Run and the agent keep the candidate's confidence in the
\* proposal, Pipeline.Run keeps the controller's).
C12_ScreeningRejects ==
    /\ \A i \in DOMAIN ProposalsOf(fastRun) :
          /\ ProposalsOf(fastRun)[i].Confidence >= MinConfidence
          /\ ~NotAValue(ProposalsOf(fastRun)[i].Field, ProposalsOf(fastRun)[i].After)
    /\ \A i \in DOMAIN ProposalsOf(pipeRun) :
          ~NotAValue(ProposalsOf(pipeRun)[i].Field, ProposalsOf(pipeRun)[i].After)
    /\ session # NoSession =>
          \A i \in DOMAIN session.Proposals :
              /\ session.Proposals[i].Confidence >= MinConfidence
              /\ ~NotAValue(session.Proposals[i].Field, session.Proposals[i].AfterValue)

\* The elements of a sequence.
Range(seq) == {seq[i] : i \in DOMAIN seq}

CallsOf(run) == IF run.pc = "none" THEN <<>> ELSE run.calls
FailedOf(run) == IF run.pc = "none" THEN {} ELSE Range(run.failed)
ReportedOf(run) == IF run.pc = "none" THEN {} ELSE Range(run.reported)

\* The failed call ended the run: it was the last call, and Run has returned
\* with an error.
TerminalFailure(run, stage) ==
    stage \in FailedOf(run)
    => /\ run.pc = "returned"
       /\ run.err
       /\ run.calls[Len(run.calls)] = stage

\* C13: when a generation call fails (the combined call of FastPipeline.Run; the
\* audit, plan and writer calls of Pipeline.Run), Run makes no further oracle
\* call and returns the partial result together with a non-nil error.
C13_GenerationFailureIsTerminal ==
    /\ TerminalFailure(fastRun, "optimize")
    /\ \A stage \in {"audit", "plan", "writer"} : TerminalFailure(pipeRun, stage)

\* A run that returned without reaching its summary.
Aborted(run) == run.pc = "returned" /\ run.result.Summary = NoSummary

\* C14: a Run that fails, malformed raw data included, returns a non-nil
\* PipelineResult holding the stages completed so far together with a non-nil
\* error; it never returns only an error.
C14_FailureReturnsResultAndError ==
    /\ Aborted(fastRun) => fastRun.err /\ fastRun.result.Stages # <<>>
    /\ Aborted(pipeRun) =>
          /\ ~pipeRun.resultNil
          /\ pipeRun.err
          /\ pipeRun.result.Stages # <<>>

\* The evidence sources of the pipelines.
EvidenceStages == {"image_evidence", "retrieval"}

\* The run went on to its generation call.
GenerationCalled(run, generation, waiting) ==
    run.pc \notin waiting => generation \in Range(run.calls)

\* C15: a failure of an evidence source (image analysis, web retrieval) does not
\* fail the run: the generation call is still made, without facts of the failed
\* source, and the failure is reported through a status, log or error callback.
C15_EvidenceFailureIsReported ==
    /\ "image_evidence" \in FailedOf(fastRun) =>
          /\ "optimize" \in Range(fastRun.calls)
          /\ ~fastRun.imageContext
          /\ "image_evidence" \in ReportedOf(fastRun)
    /\ \A stage \in EvidenceStages \cap FailedOf(pipeRun) :
          /\ GenerationCalled(pipeRun, "plan", {"retrieval", "plan"})
          /\ stage \in ReportedOf(pipeRun)
    /\ session # NoSession =>
          /\ session.pc = "returned" => "optimize" \in Range(session.calls)
          /\ "Image analysis failed" \in Range(session.log) => ~session.imageContext
          /\ "Web search failed" \in Range(session.log) => ~session.webContext

\* The status a cancelled session ends with.
CancelledStatus == session.pc = "returned" /\ ctxDone => session.Status = "cancelled"

\* No call is made once the context is done.
NoCallAfterCancel ==
    ctxDone => /\ CallsOf(fastRun') = CallsOf(fastRun)
               /\ CallsOf(pipeRun') = CallsOf(pipeRun)
               /\ CallsOf(session') = CallsOf(session)

\* C16: when the context is cancelled during a run, no oracle or fetch call is
\* made after it and the run ends with the status cancelled, never failed or
\* completed.
C16_CancelStopsTheRun == [](CancelledStatus) /\ [][NoCallAfterCancel]_vars

\* The registry the field p.registry points to.
PipelineRegistry == heap[pRegistry]

\* value is the value of a verified entry of the field whose confidence no
\* verified entry of the field exceeds.
IsVerifiedBest(r, field, value) ==
    \E id \in DOMAIN r.evidence :
        /\ r.evidence[id].field = field
        /\ r.evidence[id].verified
        /\ r.evidence[id].value = value
        /\ \A o \in DOMAIN r.evidence :
              (r.evidence[o].field = field /\ r.evidence[o].verified)
              => r.evidence[o].confidence <= r.evidence[id].confidence

\* C27: every entry of the allowed-facts whitelist handed to the writer is the
\* value of the verified best evidence of the named field at the time of the
\* call or the record's current value of the edited field; a value known only
\* from unverified evidence (a web fact, an image fact of confidence < 0.85)
\* is never in the whitelist.
C27_WhitelistIsVerified ==
    pipeRun.pc \in {"execute", "returned"} =>
        \A key \in DOMAIN pipeRun.allowedFacts :
            IF key[1] = "current"
            THEN /\ pipeRun.allowedFacts[key] = extractField(pipeRun.product, key[2])
                 /\ pipeRun.allowedFacts[key] # <<>>
            ELSE IsVerifiedBest(PipelineRegistry, key[2], pipeRun.allowedFacts[key])

\* The whitelist of an action that names title and color, built while the only
\* evidence of color is a web fact and an image fact of confidence 0.84: it
\* holds the title of the feed and nothing for color.
C27_Witness ==
    /\ pipeRun.pc \in {"execute", "returned"}
    /\ DOMAIN pipeRun.allowedFacts = {<<"fact", "title">>}
    /\ \E w, i \in DOMAIN PipelineRegistry.evidence :
          /\ PipelineRegistry.evidence[w].field = "color"
          /\ PipelineRegistry.evidence[w].sourceType = "web"
          /\ PipelineRegistry.evidence[i].field = "color"
          /\ PipelineRegistry.evidence[i].sourceType = "image"
          /\ PipelineRegistry.evidence[i].confidence < AutoVerifyThreshold
    /\ "writer" \in Range(pipeRun.calls)

\* The elements of seq at the positions of S, in order.
Pick(seq, S) ==
    [n \in 1..Cardinality(S) |->
        seq[CHOOSE k \in S : Cardinality({j \in S : j < k}) = n - 1]]

\* The candidates are the accepted proposals and the rejected ones, each list
\* in the order of the candidates, and every candidate is in exactly one.
Partitioned(candidates, proposals, rejections) ==
    \E S \in SUBSET DOMAIN candidates :
        /\ Len(proposals) = Cardinality(S)
        /\ Len(rejections) = Len(candidates) - Cardinality(S)
        /\ \A n \in DOMAIN proposals :
              /\ proposals[n].Field = Pick(candidates, S)[n].field
              /\ proposals[n].Before = Pick(candidates, S)[n].before
              /\ proposals[n].After = Pick(candidates, S)[n].after
        /\ \A n \in DOMAIN rejections :
              rejections[n].Field = Pick(candidates, DOMAIN candidates \ S)[n].field

\* The field is named in one of the three lists of the result.
Surfaced(result, field) ==
    \/ \E n \in DOMAIN result.Proposals : result.Proposals[n].Field = field
    \/ \E n \in DOMAIN result.Rejections : result.Rejections[n].Field = field
    \/ \E n \in DOMAIN result.HumanRequired : result.HumanRequired[n].Field = field

FastCandidatesKept ==
    Completed(fastRun) =>
        /\ Partitioned(fastRun.candidates, fastRun.result.Proposals,
                       fastRun.result.Rejections)
        /\ fastRun.result.Summary.ProposalsCreated
               + fastRun.result.Summary.ProposalsRejected = Len(fastRun.candidates)

PlannedActionsKept ==
    Completed(pipeRun) =>
        \A n \in DOMAIN pipeRun.plan.Actions :
            Surfaced(pipeRun.result, pipeRun.plan.Actions[n].Field)

\* C29: no candidate disappears from a result: in FastPipeline.Run every
\* candidate of the oracle's output is in exactly one of Proposals or
\* Rejections, in the oracle's order, and ProposalsCreated + ProposalsRejected
\* is the number of candidates; in Pipeline.Run every planned action ends in at
\* least one of Proposals, Rejections or HumanRequired, also when the
\* controller answers not approved with an empty rejection list.
C29_NoCandidateDisappears == FastCandidatesKept /\ PlannedActionsKept

-----------------------------------------------------------------------------
(* Validate on the records and the rule sets of the model.                   *)

MaxRules == 2

\* A string of n characters.
Repeat(c, n) == [i \in 1..n |-> c]

BasketNike == <<"b", "a", "s", "k", "e", "t", " ", "n", "i", "k", "e">>

\* Titles: empty, blank, 11 characters, 30 characters, with a promotional word,
\* 151 characters.
Titles ==
    {<<>>, <<" ">>, BasketNike, Repeat("x", 30), <<"S", "a", "l", "e", " ", "a", "b">>, Repeat("x", 151)}

\* Prices: a string, and the number 48.0, which toString turns into "".
Prices == {[kind |-> "string", value |-> <<"9">>], [kind |-> "number", value |-> <<"0">>]}

ValidateRecord(titleKey, title, link, price) ==
    [parses |-> TRUE,
     fields |-> <<[field |-> "id", kind |-> "string", value |-> <<"1">>],
                  [field |-> titleKey, kind |-> "string", value |-> title],
                  [field |-> "description", kind |-> "string", value |-> Repeat("x", 50)],
                  [field |-> "link", kind |-> "string", value |-> link],
                  [field |-> "image_link", kind |-> "string", value |-> HttpA],
                  [field |-> "price", kind |-> price.kind, value |-> price.value],
                  [field |-> "availability", kind |-> "string", value |-> <<"i">>]>>]

ValidateRecords ==
    {[parses |-> FALSE, fields |-> <<>>], [parses |-> TRUE, fields |-> <<>>]}
    \cup {ValidateRecord(titleKey, title, link, price) :
             titleKey \in {"title", "Title"}, title \in Titles,
             link \in {HttpA, AB}, price \in Prices}

\* The rules LoadRules is called with.
CustomRules ==
    {[ID |-> "title_min", Field |-> "title", Type |-> "min_length",
      Value |-> Number(12), Severity |-> "warning"],
     [ID |-> "title_pattern", Field |-> "title", Type |-> "pattern",
      Value |-> Pattern(<<"n", "i", "k", "e">>), Severity |-> "error"],
     [ID |-> "title_max", Field |-> "title", Type |-> "max_length",
      Value |-> Pattern(<<"x">>), Severity |-> "error"],
     [ID |-> "note", Field |-> "note", Type |-> "required",
      Value |-> NoValue, Severity |-> "info"]}

InitValidate ==
    /\ registry = NewEvidenceRegistry
    /\ nextID = 1
    /\ verifyCalled = {}
    /\ mu = NewRWMutex
    /\ threads = [t \in Threads |-> Idle]
    /\ RiskIdle
    /\ PipelinesIdle
    /\ ExtIdle

\* LoadRules: the rule is appended to the validator's rules.
LoadRules ==
    /\ Len(validator.rules) < Len(defaultGMCRules) + MaxRules
    /\ \E rule \in CustomRules :
          validator' = [validator EXCEPT !.rules = Append(@, rule)]
    /\ UNCHANGED <<regVars, concVars, riskVars, plVars, agentVars, validation, dbVars, lateVars>>

\* The Validate call observed, on a record, with the rules the validator holds.
ValidateCall ==
    /\ validation = NoValidation
    /\ \E record \in ValidateRecords :
          validation' = [pc |-> "returned", record |-> record,
                         rules |-> validator.rules,
                         result |-> Validate(validator.rules, record)]
    /\ UNCHANGED <<regVars, concVars, riskVars, plVars, agentVars, validator, dbVars, lateVars>>

NextValidate ==
    \/ LoadRules
    \/ ValidateCall

SpecValidate == InitValidate /\ [][NextValidate]_vars

\* The rule of a violation or warning, among the rules of the call.
RuleOf(rules, id) == rules[CHOOSE i \in DOMAIN rules : rules[i].ID = id]

\* C18: the result of Validate has Valid false exactly when Violations is not
\* empty; the violations are of rules of severity error and the warnings of rules
\* of any other severity; a record that does not parse gives exactly one
\* violation and Valid false.
C18_ValidIffNoViolation ==
    validation # NoValidation =>
        /\ ~validation.result.Valid <=> validation.result.Violations # <<>>
        /\ validation.record.parses =>
              /\ \A i \in DOMAIN validation.result.Violations :
                    RuleOf(validation.rules,
                           validation.result.Violations[i].RuleID).Severity = "error"
              /\ \A i \in DOMAIN validation.result.Warnings :
                    RuleOf(validation.rules,
                           validation.result.Warnings[i].RuleID).Severity # "error"
        /\ ~validation.record.parses =>
              /\ Len(validation.result.Violations) = 1
              /\ ~validation.result.Valid

\* Validate returned warnings of a warning rule and of an info rule, one of
\* them loaded by LoadRules, and no violation.
C18_Witness ==
    /\ validation # NoValidation
    /\ Len(validation.rules) > Len(defaultGMCRules)
    /\ validation.result.Valid
    /\ \E i, j \in DOMAIN validation.result.Warnings :
          /\ validation.result.Warnings[i].RuleID = "title_min"
          /\ validation.result.Warnings[j].RuleID = "gmc_material_recommended"

\* A Validate call with the default rules on a record whose title is not empty
\* and shorter than 30 characters and whose other required fields are present.
ShortTitleCall ==
    /\ validation # NoValidation
    /\ validation.rules = defaultGMCRules
    /\ validation.record.parses
    /\ getFieldValue(validation.record.fields, "title") # <<>>
    /\ Len(getFieldValue(validation.record.fields, "title")) < 30
    /\ \A f \in {"id", "description", "link", "image_link", "price", "availability"} :
          ~IsBlank(getFieldValue(validation.record.fields, f))

OnlyShortTitle ==
    /\ ShortTitleCall
    /\ ~IsBlank(getFieldValue(validation.record.fields, "title"))
    /\ checkRule(RuleOf(defaultGMCRules, "gmc_title_promo"),
                 getFieldValue(validation.record.fields, "title")) = NoViolation
    /\ \A f \in {"link", "image_link"} :
          IsURL(getFieldValue(validation.record.fields, f))
    /\ Len(getFieldValue(validation.record.fields, "description")) <= 5000

-----------------------------------------------------------------------------
(* The proposals table: Handlers.UpdateProposal, Queries.UpdateProposalStatus *)
(* and Queries.ApplyApprovalRules.                                           *)

MaxApprovalRules == 2

\* The rows of the table, all proposed and not reviewed.
ProposalTable ==
    [p1 |-> [status |-> "proposed", field |-> "title", module |-> "m",
             confidence |-> 95, risk_level |-> "low", reviewed_by |-> "",
             reviewed |-> FALSE],
     p2 |-> [status |-> "proposed", field |-> "description", module |-> "",
             confidence |-> 55, risk_level |-> "medium", reviewed_by |-> "",
             reviewed |-> FALSE],
     p3 |-> [status |-> "proposed", field |-> "material", module |-> "",
             confidence |-> 40, risk_level |-> "high", reviewed_by |-> "",
             reviewed |-> FALSE]]

\* The ids of the requests: the rows and an id no row has.
ProposalIDs == {"p1", "p2", "p3", "p9"}

\* The approval rules ListApprovalRules can return, in its order.
ApprovalRules ==
    {[Name |-> "confident", Active |-> TRUE, Action |-> "auto_approve", Field |-> "",
      Module |-> "", MinConfidence |-> 90, MaxRisk |-> "low"],
     [Name |-> "material", Active |-> TRUE, Action |-> "auto_reject",
      Field |-> "material", Module |-> "", MinConfidence |-> 0, MaxRisk |-> ""],
     [Name |-> "flagged", Active |-> TRUE, Action |-> "flag", Field |-> "",
      Module |-> "", MinConfidence |-> 0, MaxRisk |-> ""],
     [Name |-> "off", Active |-> FALSE, Action |-> "auto_approve", Field |-> "",
      Module |-> "", MinConfidence |-> 0, MaxRisk |-> ""],
     [Name |-> "module", Active |-> TRUE, Action |-> "auto_approve", Field |-> "",
      Module |-> "m", MinConfidence |-> 0, MaxRisk |-> "medium"],
     [Name |-> "all", Active |-> TRUE, Action |-> "auto_reject", Field |-> "",
      Module |-> "", MinConfidence |-> 0, MaxRisk |-> "medium"]}

\* UpdateProposalStatus: UPDATE proposals SET status, reviewed_at WHERE id.
UpdateProposalStatus(table, id, status) ==
    [i \in DOMAIN table |->
        IF i = id THEN [table[i] EXCEPT !.status = status, !.reviewed = TRUE]
        ELSE table[i]]

\* The WHERE clause of the UPDATE of ApplyApprovalRules.
RuleMatches(rule, row) ==
    /\ row.status = "proposed"
    /\ rule.Field = "" \/ row.field = rule.Field
    /\ rule.Module = "" \/ row.module = rule.Module
    /\ rule.MinConfidence = 0 \/ row.confidence >= rule.MinConfidence
    /\ \/ rule.MaxRisk = ""
       \/ row.risk_level = rule.MaxRisk
       \/ rule.MaxRisk = "low" /\ row.risk_level = "low"
       \/ rule.MaxRisk = "medium" /\ row.risk_level \in {"low", "medium"}

\* The UPDATE of one rule.
ApplyRule(table, rule, newStatus) ==
    [i \in DOMAIN table |->
        IF RuleMatches(rule, table[i])
        THEN [table[i] EXCEPT !.status = newStatus, !.reviewed = TRUE,
                              !.reviewed_by = rule.Name]
        ELSE table[i]]

\* "for _, rule := range rules": rules that are not active and flagging rules
\* are skipped.
RECURSIVE ApplyRules(_, _)
ApplyRules(table, rules) ==
    IF rules = <<>> THEN table
    ELSE IF ~Head(rules).Active \/ Head(rules).Action = "flag"
    THEN ApplyRules(table, Tail(rules))
    ELSE ApplyRules(ApplyRule(table, Head(rules),
                              IF Head(rules).Action = "auto_reject" THEN "rejected"
                              ELSE "accepted"),
                    Tail(rules))

InitProposals ==
    /\ registry = NewEvidenceRegistry
    /\ nextID = 1
    /\ verifyCalled = {}
    /\ mu = NewRWMutex
    /\ threads = [t \in Threads |-> Idle]
    /\ RiskIdle
    /\ PipelinesIdle
    /\ SessionIdle
    /\ ValidatorIdle
    /\ LateIdle
    /\ dbProposals = ProposalTable

\* Handlers.UpdateProposal: an action other than accept, reject and edit is a
\* bad request; else the status of the row is set.
UpdateProposal ==
    /\ \E id \in ProposalIDs, action \in {"accept", "reject", "edit", "approve"} :
          dbProposals' =
              CASE action = "accept" -> UpdateProposalStatus(dbProposals, id, "accepted")
                [] action = "reject" -> UpdateProposalStatus(dbProposals, id, "rejected")
                [] action = "edit" -> UpdateProposalStatus(dbProposals, id, "edited")
                [] OTHER -> dbProposals
    /\ UNCHANGED <<regVars, concVars, riskVars, plVars, agentVars, valVars, lateVars>>

\* Queries.ApplyApprovalRules with the rules ListApprovalRules returns.
ApplyApprovalRules ==
    /\ \E rules \in SeqsUpTo(ApprovalRules, MaxApprovalRules) :
          dbProposals' = ApplyRules(dbProposals, rules)
    /\ UNCHANGED <<regVars, concVars, riskVars, plVars, agentVars, valVars, lateVars>>

NextProposals ==
    \/ UpdateProposal
    \/ ApplyApprovalRules

SpecProposals == InitProposals /\ [][NextProposals]_vars

\* A step leaves the status of every proposal that is not proposed.
StatusKept ==
    \A id \in DOMAIN dbProposals :
        dbProposals[id].status # "proposed"
        => dbProposals'[id].status = dbProposals[id].status

\* C17: a proposal's status changes at most once, from proposed to accepted,
\* rejected or edited: no UpdateProposal request and no ApplyApprovalRules
\* execution changes the status of a proposal that is not proposed.
C17_StatusChangesOnce == [][StatusKept]_vars

-----------------------------------------------------------------------------
(* Feed facts and GetAllowedFacts                                            *)

\* The registry holds feed evidence only, and some.
OnlyFeedFacts ==
    /\ registry.evidence # <<>>
    /\ \A id \in DOMAIN registry.evidence : Entry(id).sourceType = "feed"

\* The field-to-value pairs registered, and the pairs GetAllowedFacts returns.
RegisteredPairs ==
    {<<Entry(id).field, Entry(id).value>> : id \in DOMAIN registry.evidence}
AllowedPairs ==
    {<<f, GetAllowedFacts(registry)[f]>> : f \in DOMAIN GetAllowedFacts(registry)}

\* GetAllowedFacts returns the N pairs registered, no more and no fewer.
ReturnsRegistered ==
    /\ AllowedPairs = RegisteredPairs
    /\ Cardinality(DOMAIN GetAllowedFacts(registry))
           = Cardinality(DOMAIN registry.evidence)

\* C20: on a fresh registry, after N feed facts were registered (RegisterFromFeed,
\* LoadFromFeedData) and nothing else, GetAllowedFacts returns exactly those N
\* field-to-value pairs, every value unchanged, no field missing or added.
C20_FeedFactsReturned == OnlyFeedFacts => ReturnsRegistered

\* No two of the facts registered are on one field.
DistinctFields ==
    \A id, other \in DOMAIN registry.evidence :
        Entry(id).field = Entry(other).field => id = other

\* C20 as amended: the same, for N feed facts on N distinct fields.
C20_DistinctFeedFactsReturned ==
    OnlyFeedFacts /\ DistinctFields => ReturnsRegistered

\* Feed facts on two fields have been registered, and nothing else.
C20_Witness ==
    /\ OnlyFeedFacts
    /\ DistinctFields
    /\ Cardinality(DOMAIN registry.evidence) >= 2
    /\ Cardinality(DOMAIN GetAllowedFacts(registry)) >= 2


-----------------------------------------------------------------------------
(* DiffEngine.ComputeDiff and calculateChangeRatio called on one pair of    *)
(* strings.                                                                 *)

\* Longest text of the pairs, beside the samples.
MaxDiffLen == 3

DiffAlphabet == {"a", "b", " "}

RECURSIVE DiffTextsUpTo(_)
DiffTextsUpTo(n) ==
    IF n = 0 THEN {<<>>}
    ELSE DiffTextsUpTo(n - 1)
         \cup {Append(t, c) : t \in {u \in DiffTextsUpTo(n - 1) : Len(u) = n - 1},
                              c \in DiffAlphabet}

\* Texts with punctuation, an upper-case letter, a repeated word, a longer
\* common suffix, and two texts of three words with one word in common.
DiffSamples ==
    {<<"a", ",", "b">>, <<"A", " ", "b">>, <<"a", " ", "a", " ", "b">>,
     <<"b", " ", "a", " ", "b">>, <<"a", "b", " ", "a", "b">>,
     <<"a", " ", "b", " ", "c">>, <<"a", " ", "d", " ", "e">>}

DiffTexts == DiffTextsUpTo(MaxDiffLen) \cup DiffSamples

InitDiff ==
    /\ registry = NewEvidenceRegistry
    /\ nextID = 1
    /\ verifyCalled = {}
    /\ mu = NewRWMutex
    /\ threads = [t \in Threads |-> Idle]
    /\ RiskIdle
    /\ PipelinesIdle
    /\ SessionIdle
    /\ ValidatorIdle
    /\ ProposalsIdle
    /\ toolRun = NoRun
    /\ stageRun = NoRun
    /\ diff \in [pc : {"call"}, field : {"title"}, before : DiffTexts, after : DiffTexts,
                 result : {NoResult}, changeRatio : {NoResult}]

\* ComputeDiff is called on the pair, and calculateChangeRatio as AssessChange
\* calls it on the same pair.
CallComputeDiff ==
    /\ diff.pc = "call"
    /\ diff' = [diff EXCEPT !.pc = "done",
                            !.result = ComputeDiff(diff.field, diff.before, diff.after),
                            !.changeRatio = calculateChangeRatio(diff.before, diff.after)]
    /\ UNCHANGED <<regVars, concVars, riskVars, plVars, agentVars, valVars, dbVars,
                   loopVars, goVars>>

NextDiff == CallComputeDiff

SpecDiff == InitDiff /\ [][NextDiff]_vars

-----------------------------------------------------------------------------
(* Claims about the DiffEngine                                              *)

\* C25: for every pair of non-empty before/after strings, the change ratio
\* AssessChange uses equals 1 minus the Jaccard similarity ComputeDiff computes
\* for the same pair.
C25_RatioIsOneMinusJaccard ==
    (diff.pc = "done" /\ diff.before # <<>> /\ diff.after # <<>>) =>
        diff.changeRatio.num * diff.result.Similarity.den
            = (diff.result.Similarity.den - diff.result.Similarity.num)
              * diff.changeRatio.den

\* The length of the longest common prefix of two strings, and of their longest
\* common suffix.
CommonPrefixLen(s, t) ==
    CHOOSE k \in 0..Min(Len(s), Len(t)) :
        /\ SubSeq(s, 1, k) = SubSeq(t, 1, k)
        /\ k < Min(Len(s), Len(t)) => s[k + 1] # t[k + 1]

CommonSuffixLen(s, t) ==
    CHOOSE k \in 0..Min(Len(s), Len(t)) :
        /\ SubSeq(s, Len(s) - k + 1, Len(s)) = SubSeq(t, Len(t) - k + 1, Len(t))
        /\ k < Min(Len(s), Len(t)) => s[Len(s) - k] # t[Len(t) - k]

\* The change list of the statement for a prefix of length k and, of what
\* follows it, a suffix of length j: the parts that are empty left out.
AffixChanges(before, after, k, j) ==
    (IF k > 0 THEN <<[Type |-> "equal", Text |-> SubSeq(before, 1, k)]>> ELSE <<>>)
    \o (IF Len(before) - k - j > 0
        THEN <<[Type |-> "delete", Text |-> SubSeq(before, k + 1, Len(before) - j)]>>
        ELSE <<>>)
    \o (IF Len(after) - k - j > 0
        THEN <<[Type |-> "insert", Text |-> SubSeq(after, k + 1, Len(after) - j)]>>
        ELSE <<>>)
    \o (IF j > 0
        THEN <<[Type |-> "equal",
                Text |-> SubSeq(before, Len(before) - j + 1, Len(before))]>>
        ELSE <<>>)

ExpectedChanges(before, after, k) ==
    AffixChanges(before, after, k,
                 CommonSuffixLen(SubSeq(before, k + 1, Len(before)),
                                 SubSeq(after, k + 1, Len(after))))

TypeAndText(changes) ==
    [n \in DOMAIN changes |-> [Type |-> changes[n].Type, Text |-> changes[n].Text]]

\* C26: for every pair of different strings, the change list of ComputeDiff is
\* the whole common prefix as equal, one delete holding the old middle, one
\* insert holding the new middle, and the whole common suffix of what follows
\* the prefix as equal.
C26_ChangesMarkAffixes ==
    (diff.pc = "done" /\ diff.before # diff.after) =>
        TypeAndText(diff.result.Changes)
            = ExpectedChanges(diff.before, diff.after,
                              CommonPrefixLen(diff.before, diff.after))


-----------------------------------------------------------------------------
(* FastPipeline.Run with its image-analysis goroutine.  The steps of the    *)
(* main flow and of the goroutine interleave; a callback is entered and     *)
(* left in two steps, so that two callbacks can be seen to overlap.         *)

\* The candidates of the oracle's output: sound, rejected by the deterministic
\* validation, on a high-risk field.
StageProposals ==
    {[field |-> "title", before |-> AB, after |-> ABC, confidence |-> 95],
     [field |-> "title", before |-> AB, after |-> AB, confidence |-> 95],
     [field |-> "material", before |-> AB, after |-> ABC, confidence |-> 95]}

StageOutputs == [Proposals : SeqsUpTo(StageProposals, MaxProposals), Score : {50}]

\* What analyzeImageFast returns: the content and a nil error, an empty
\* content and a nil error, or "" and an error.
ImageAnalyses ==
    {[content |-> <<"s">>, err |-> FALSE], [content |-> <<>>, err |-> FALSE],
     [content |-> <<>>, err |-> TRUE]}

\* var imageContext string; var imageErr error
ZeroImage == [content |-> <<>>, err |-> FALSE]

\* The positions of the main flow at which a callback is called, with the
\* callback and its stage, and the position after each position.
MainCallbacks ==
    [start_validate |-> <<"OnStageStart", "validate">>,
     end_validate |-> <<"OnStageEnd", "validate">>,
     start_optimize |-> <<"OnStageStart", "optimize">>,
     error_optimize |-> <<"OnError", "optimize">>,
     end_optimize |-> <<"OnStageEnd", "optimize">>,
     start_control |-> <<"OnStageStart", "control">>,
     end_control |-> <<"OnStageEnd", "control">>,
     complete |-> <<"OnComplete", "">>]

MainAfter ==
    [start_validate |-> "validate", validate |-> "end_validate",
     end_validate |-> "spawn", spawn |-> "start_optimize",
     start_optimize |-> "wait", wait |-> "read", read |-> "generate",
     error_optimize |-> "returned", end_optimize |-> "start_control",
     start_control |-> "control", control |-> "end_control",
     end_control |-> "summary", summary |-> "complete", complete |-> "returned"]

\* The same for the goroutine.
ImageCallbacks ==
    [start_image |-> <<"OnStageStart", "image_evidence">>,
     end_image |-> <<"OnStageEnd", "image_evidence">>]

ImageAfter ==
    [start_image |-> "analyze", analyze |-> "end_image", end_image |-> "done"]

InitStages ==
    /\ registry = NewEvidenceRegistry
    /\ nextID = 1
    /\ verifyCalled = {}
    /\ mu = NewRWMutex
    /\ threads = [t \in Threads |-> Idle]
    /\ RiskIdle
    /\ PipelinesIdle
    /\ SessionIdle
    /\ ValidatorIdle
    /\ ProposalsIdle
    /\ diff = NoDiff
    /\ toolRun = NoRun
    /\ stageRun \in [pc : {"start_validate"}, inCallback : {FALSE},
                     image : {"none"}, imageInCallback : {FALSE},
                     product : {RecordA, RecordB, Malformed},
                     callbacks : BOOLEAN, wg : {0}, events : {<<>>},
                     imageContext : {ZeroImage}, wrote : {NoOutput},
                     hasRead : {FALSE}, contextInfo : {<<>>},
                     result : {NewPipelineResult("p")}, output : {NoOutput},
                     err : {FALSE}]

StageFrame ==
    UNCHANGED <<regVars, concVars, riskVars, plVars, agentVars, valVars, dbVars,
                diffVars, loopVars>>

InRun == stageRun.pc # "none"

\* "if p.callbacks.X != nil { p.callbacks.X(...) }" in the main flow: with no
\* callback set the flow goes on; else the callback is entered.
MainCallback ==
    /\ InRun
    /\ stageRun.pc \in DOMAIN MainCallbacks
    /\ ~stageRun.inCallback
    /\ stageRun' =
          IF stageRun.callbacks
          THEN [stageRun EXCEPT !.inCallback = TRUE,
                                !.events = Append(@, MainCallbacks[stageRun.pc])]
          ELSE [stageRun EXCEPT !.pc = MainAfter[stageRun.pc]]
    /\ StageFrame

\* The callback returns to the main flow.
MainCallbackReturn ==
    /\ InRun
    /\ stageRun.inCallback
    /\ stageRun' = [stageRun EXCEPT !.inCallback = FALSE,
                                    !.pc = MainAfter[stageRun.pc]]
    /\ StageFrame

\* Stage 1: p.validator.Validate and the StageResult of the stage.
MainValidate ==
    /\ InRun
    /\ stageRun.pc = "validate"
    /\ stageRun' = [stageRun EXCEPT !.pc = MainAfter[stageRun.pc],
                                    !.result.ProductID = stageRun.product.id,
                                    !.result.Stages = Append(@, "validate")]
    /\ StageFrame

\* "if imageURL != "" { wg.Add(1); go func() {...}() }"
MainSpawn ==
    /\ InRun
    /\ stageRun.pc = "spawn"
    /\ stageRun' =
          IF extractImageURL(stageRun.product) # <<>>
          THEN [stageRun EXCEPT !.pc = MainAfter[stageRun.pc], !.wg = @ + 1,
                                !.image = "start_image"]
          ELSE [stageRun EXCEPT !.pc = MainAfter[stageRun.pc]]
    /\ StageFrame

\* wg.Wait() returns at once, whatever the counter.
MainWaitNotJoined ==
    /\ InRun
    /\ stageRun.pc = "wait"
    /\ stageRun' = [stageRun EXCEPT !.pc = MainAfter[stageRun.pc]]
    /\ StageFrame

\* wg.Wait(): returns once the counter is zero.
MainWait ==
    /\ InRun
    /\ stageRun.pc = "wait"
    /\ stageRun.wg = 0
    /\ stageRun' = [stageRun EXCEPT !.pc = MainAfter[stageRun.pc]]
    /\ StageFrame

\* "Build context including image observations": the reads of imageContext
\* and imageErr.
MainRead ==
    /\ InRun
    /\ stageRun.pc = "read"
    /\ stageRun' = [stageRun EXCEPT
                       !.pc = MainAfter[stageRun.pc],
                       !.hasRead = TRUE,
                       !.contextInfo =
                           IF stageRun.imageContext.content # <<>>
                              /\ ~stageRun.imageContext.err
                           THEN stageRun.imageContext.content ELSE <<>>]
    /\ StageFrame

\* runCombinedOptimization: an error, or an output and the StageResult.
MainGenerate ==
    /\ InRun
    /\ stageRun.pc = "generate"
    /\ \E output \in {NoOutput} \cup StageOutputs :
          stageRun' =
              IF output = NoOutput
              THEN [stageRun EXCEPT !.pc = "error_optimize", !.err = TRUE]
              ELSE [stageRun EXCEPT !.pc = "end_optimize", !.output = output,
                                    !.result.Stages = Append(@, "optimize")]
    /\ StageFrame

\* "for _, prop := range output.Proposals": the result after the proposals.
RECURSIVE FastControlAll(_, _)
FastControlAll(result, proposals) ==
    IF proposals = <<>> THEN result
    ELSE FastControlAll(FastControl(result, Head(proposals)), Tail(proposals))

\* The control loop; its callbacks are called by the main flow alone.
MainControl ==
    /\ InRun
    /\ stageRun.pc = "control"
    /\ stageRun' = [stageRun EXCEPT
                       !.pc = MainAfter[stageRun.pc],
                       !.result = FastControlAll(@, stageRun.output.Proposals)]
    /\ StageFrame

\* "Build summary"
MainSummary ==
    /\ InRun
    /\ stageRun.pc = "summary"
    /\ stageRun' = [stageRun EXCEPT
                       !.pc = MainAfter[stageRun.pc],
                       !.result = FastSummary(@, stageRun.output.Score)]
    /\ StageFrame

\* The callbacks of the goroutine.
ImageCallback ==
    /\ InRun
    /\ stageRun.image \in DOMAIN ImageCallbacks
    /\ ~stageRun.imageInCallback
    /\ stageRun' =
          IF stageRun.callbacks
          THEN [stageRun EXCEPT !.imageInCallback = TRUE,
                                !.events = Append(@, ImageCallbacks[stageRun.image])]
          ELSE [stageRun EXCEPT !.image = ImageAfter[stageRun.image]]
    /\ StageFrame

ImageCallbackReturn ==
    /\ InRun
    /\ stageRun.imageInCallback
    /\ stageRun' = [stageRun EXCEPT !.imageInCallback = FALSE,
                                    !.image = ImageAfter[stageRun.image]]
    /\ StageFrame

\* "imageContext, imageErr = p.analyzeImageFast(ctx, imageURL)"
ImageAnalyze ==
    /\ InRun
    /\ stageRun.image = "analyze"
    /\ \E analysis \in ImageAnalyses :
          stageRun' = [stageRun EXCEPT !.image = ImageAfter[stageRun.image],
                                       !.imageContext = analysis,
                                       !.wrote = analysis]
    /\ StageFrame

\* The deferred wg.Done(); the goroutine ends.
ImageDone ==
    /\ InRun
    /\ stageRun.image = "done"
    /\ stageRun.wg > 0
    /\ stageRun' = [stageRun EXCEPT !.wg = @ - 1, !.image = "ended"]
    /\ StageFrame

NextStages ==
    \/ MainCallback
    \/ MainCallbackReturn
    \/ MainValidate
    \/ MainSpawn
    \/ MainWait
    \/ MainRead
    \/ MainGenerate
    \/ MainControl
    \/ MainSummary
    \/ ImageCallback
    \/ ImageCallbackReturn
    \/ ImageAnalyze
    \/ ImageDone

SpecStages == InitStages /\ [][NextStages]_vars

-----------------------------------------------------------------------------
(* Claims about the stages of FastPipeline.Run                              *)

\* The main flow has read the image variables; it has called the generation.
HasRead == InRun /\ stageRun.hasRead
Generating ==
    InRun /\ stageRun.pc \notin {"start_validate", "validate", "end_validate", "spawn",
                                 "start_optimize", "wait", "read"}

\* The goroutine was not started, or it has ended.
ImageJoined == stageRun.image \in {"none", "ended"}

\* What the reads of the main flow give for the values the task wrote.
ContextOf(analysis) ==
    IF analysis = NoOutput THEN <<>>
    ELSE IF analysis.content # <<>> /\ ~analysis.err THEN analysis.content
    ELSE <<>>

\* C22: in FastPipeline.Run, under every interleaving of the main flow and the
\* image-analysis goroutine, the generation call starts only after the image
\* task has finished, the main flow reads the image result and error only
\* then, and what it reads is what the task wrote.
C22_GenerationAfterImageTask ==
    InRun =>
        /\ (stageRun.pc = "read" \/ HasRead \/ Generating) => ImageJoined
        /\ HasRead => stageRun.contextInfo = ContextOf(stageRun.wrote)

\* The main flow reported the start of optimize before the goroutine ran, then
\* waited; the generation was called with the content the task wrote.
C22_Witness ==
    /\ InRun
    /\ stageRun.pc = "end_optimize"
    /\ stageRun.image = "ended"
    /\ stageRun.wrote = [content |-> <<"s">>, err |-> FALSE]
    /\ stageRun.contextInfo = <<"s">>
    /\ stageRun.events = <<<<"OnStageStart", "validate">>, <<"OnStageEnd", "validate">>,
                           <<"OnStageStart", "optimize">>,
                           <<"OnStageStart", "image_evidence">>,
                           <<"OnStageEnd", "image_evidence">>>>

\* The position of the first event of that kind and stage in the log, 0 when it
\* is not there.
EventAt(event) ==
    IF \E n \in DOMAIN stageRun.events : stageRun.events[n] = event
    THEN CHOOSE n \in DOMAIN stageRun.events :
            /\ stageRun.events[n] = event
            /\ \A m \in 1..(n - 1) : stageRun.events[m] # event
    ELSE 0

\* The image task was started.
ImageStarted == stageRun.image # "none"

\* C23: the stage events follow the fixed stage order: "optimize" is never
\* reported as started before "image_evidence" has been reported as ended, and
\* no two callbacks execute at the same time.
C23_StageEventsInOrder ==
    InRun =>
        /\ (ImageStarted /\ EventAt(<<"OnStageStart", "optimize">>) > 0) =>
              /\ EventAt(<<"OnStageEnd", "image_evidence">>) > 0
              /\ EventAt(<<"OnStageEnd", "image_evidence">>)
                    < EventAt(<<"OnStageStart", "optimize">>)
        /\ ~(stageRun.inCallback /\ stageRun.imageInCallback)


-----------------------------------------------------------------------------
(* agent.Agent.Run: the loop of reasoning steps.  At each step the oracle    *)
(* stops, or names a tool and its input, and the first tool call is         *)
(* executed on the Session.                                                 *)

\* config.Agent.MaxSteps of the model, and the longest list of changes in the
\* input of commit_changes.
MaxSteps == 3
MaxChanges == 2

\* The changes the oracle proposes.
Changes ==
    {[field |-> "title", before |-> AB, after |-> ABC],
     [field |-> "color", before |-> <<>>, after |-> <<"r", "e", "d">>]}

\* CommitChange: a change, its confidence and the validated flag of the input.
CommitChanges ==
    [field : {"title", "color"}, before : {AB, <<>>}, after : {ABC, <<"r", "e", "d">>},
     confidence : {90}, validated : BOOLEAN]

CommitInputs ==
    SeqsUpTo({c \in CommitChanges :
                 [field |-> c.field, before |-> c.before, after |-> c.after] \in Changes},
             MaxChanges)

\* Session.AddProposal: the proposal appended to s.Proposals (BeforeValue is
\* nil for an empty before, written <<>>).
AddProposal(proposals, field, before, after, confidence, riskLevel) ==
    Append(proposals,
           [Field |-> field, BeforeValue |-> before, AfterValue |-> after,
            Confidence |-> confidence, RiskLevel |-> riskLevel,
            Status |-> "proposed"])

\* CommitChangesTool.Execute: the loop over params.Changes.
RECURSIVE CommitLoop(_, _)
CommitLoop(acc, changes) ==
    IF changes = <<>> THEN acc
    ELSE CommitLoop(
            IF Head(changes).validated
            THEN [acc EXCEPT !.proposals =
                                 AddProposal(@, Head(changes).field, Head(changes).before,
                                             Head(changes).after,
                                             Head(changes).confidence, "low"),
                             !.applied = @ + 1]
            ELSE [acc EXCEPT !.pending = @ + 1],
            Tail(changes))

CommitChangesExecute(proposals, changes) ==
    CommitLoop([proposals |-> proposals, applied |-> 0, pending |-> 0], changes)

InitAgentLoop ==
    /\ registry = NewEvidenceRegistry
    /\ nextID = 1
    /\ verifyCalled = {}
    /\ mu = NewRWMutex
    /\ threads = [t \in Threads |-> Idle]
    /\ RiskIdle
    /\ PipelinesIdle
    /\ SessionIdle
    /\ ValidatorIdle
    /\ ProposalsIdle
    /\ diff = NoDiff
    /\ stageRun = NoRun
    /\ toolRun = NoRun

LoopFrame ==
    UNCHANGED <<regVars, concVars, riskVars, plVars, agentVars, valVars, dbVars,
                diffVars, goVars>>

\* Run up to the loop: the Session, and "return nil, err" when the record does
\* not parse.
AgentRun ==
    /\ toolRun = NoRun
    /\ \E product \in {RecordA, Malformed} :
          toolRun' = [pc |-> IF product.parses THEN "loop" ELSE "returned",
                      sessionNil |-> ~product.parses,
                      status |-> "running", step |-> 1, traces |-> <<>>,
                      proposals |-> <<>>, validations |-> {},
                      output |-> NoOutput, err |-> ~product.parses]
    /\ LoopFrame

InLoop == toolRun.pc = "loop" /\ toolRun.step <= MaxSteps

\* "case <-ctx.Done()": the context is done at the top of the loop.
StepCancelled ==
    /\ InLoop
    /\ toolRun' = [toolRun EXCEPT !.pc = "returned", !.status = "cancelled",
                                  !.err = TRUE]
    /\ LoopFrame

\* executeStep returns an error: the oracle call failed, the tool is unknown,
\* or the tool failed.
StepFails ==
    /\ InLoop
    /\ toolRun' = [toolRun EXCEPT !.pc = "returned", !.status = "failed", !.err = TRUE]
    /\ LoopFrame

\* The oracle stops or names no tool: the trace, done.
StepStops ==
    /\ InLoop
    /\ toolRun' = [toolRun EXCEPT !.pc = "done", !.traces = Append(@, "thought")]
    /\ LoopFrame

\* The tool is validate_proposal: the oracle's verdict is the tool's output; the
\* Session is not written.
StepValidateProposal ==
    /\ InLoop
    /\ \E change \in Changes, valid \in BOOLEAN :
          toolRun' = [toolRun EXCEPT
                         !.step = @ + 1,
                         !.traces = Append(@, "validate_proposal"),
                         !.validations = @ \cup {[change |-> change, valid |-> valid]}]
    /\ LoopFrame

\* The tool is commit_changes: done.
StepCommitChanges ==
    /\ InLoop
    /\ \E changes \in CommitInputs :
          toolRun' = [toolRun EXCEPT
                         !.pc = "done",
                         !.traces = Append(@, "commit_changes"),
                         !.proposals = CommitChangesExecute(@, changes).proposals,
                         !.output =
                             [Success |-> TRUE,
                              ChangesApplied |->
                                  CommitChangesExecute(toolRun.proposals, changes).applied,
                              PendingHumanReview |->
                                  CommitChangesExecute(toolRun.proposals, changes).pending]]
    /\ LoopFrame

\* After the loop (done, or MaxSteps steps): the status, "return session, nil".
AgentRunReturns ==
    /\ \/ toolRun.pc = "done"
       \/ toolRun.pc = "loop" /\ toolRun.step > MaxSteps
    /\ toolRun' = [toolRun EXCEPT !.pc = "returned", !.status = "completed"]
    /\ LoopFrame

NextAgentLoop ==
    \/ AgentRun
    \/ StepCancelled
    \/ StepFails
    \/ StepStops
    \/ StepValidateProposal
    \/ StepCommitChanges
    \/ AgentRunReturns

SpecAgentLoop == InitAgentLoop /\ [][NextAgentLoop]_vars

-----------------------------------------------------------------------------
(* Claims about the agent's tools                                           *)

\* validate_proposal was executed in the session for the change of the
\* proposal and returned valid = true.
ValidatedTrue(proposal) ==
    \E v \in toolRun.validations :
        /\ v.valid
        /\ v.change = [field |-> proposal.Field, before |-> proposal.BeforeValue,
                       after |-> proposal.AfterValue]

\* C21: in an agent session, commit_changes applies a change (records it as a
\* proposal through AddProposal) only if validate_proposal was executed earlier
\* in that session for that change and returned valid = true; a change never
\* validated, or validated as invalid, is never applied.
C21_CommitOnlyValidated ==
    toolRun # NoRun =>
        \A n \in DOMAIN toolRun.proposals : ValidatedTrue(toolRun.proposals[n])

====
